---------------------------- MODULE Spec2Model ----------------------------
(***************************************************************************)
(* KJSSE CGPA calculator: grade scale, subject evaluator, exam-score       *)
(* predictor, SGPA and CGPA aggregators, with the session state, the form  *)
(* inputs they read and the output regions they write.                     *)
(*                                                                         *)
(* Numbers.  A JavaScript number is a record [nan, v]: NaN, or the integer *)
(* v.  The typed values of the model are integer literals, so every sum    *)
(* and product is exact; a quotient a / b is kept as the pair [num, den]   *)
(* and only ever compared, as the code does with it.  On the ranges of the *)
(* model the IEEE-754 results of (total / highest) * 100 >= k and of       *)
(* Math.ceil(0.8 * highest - currentTotal) agree with the exact ones.      *)
(*                                                                         *)
(* Strings.  The value of a form input is a sequence of one-character      *)
(* strings; parseFloat and parseInt scan it as the built-ins do.           *)
(***************************************************************************)
EXTENDS Integers, Sequences, FiniteSets, TLC

(***************************************************************************)
(* JavaScript numbers and the built-ins the code calls                     *)
(***************************************************************************)
NaN == [nan |-> TRUE, v |-> 0]

Num(n) == [nan |-> FALSE, v |-> n]

isNaN(x) == x.nan

IsDigit(c) == c \in {"0", "1", "2", "3", "4", "5", "6", "7", "8", "9"}

DigitValue(c) ==
    CASE c = "0" -> 0 [] c = "1" -> 1 [] c = "2" -> 2 [] c = "3" -> 3
      [] c = "4" -> 4 [] c = "5" -> 5 [] c = "6" -> 6 [] c = "7" -> 7
      [] c = "8" -> 8 [] c = "9" -> 9

RECURSIVE ScanDigits(_, _, _)
\* Longest run of decimal digits of str starting at position i.
ScanDigits(str, i, acc) ==
    IF i > Len(str) \/ ~IsDigit(str[i])
    THEN [end |-> i, v |-> acc]
    ELSE ScanDigits(str, i + 1, acc * 10 + DigitValue(str[i]))

\* parseFloat(string): optional sign, then the longest numeric prefix; NaN
\* when there is none.  Trailing characters are ignored.
parseFloat(str) ==
    LET neg   == Len(str) > 0 /\ str[1] = "-"
        start == IF neg THEN 2 ELSE 1
        scan  == ScanDigits(str, start, 0)
    IN  IF scan.end = start
        THEN NaN
        ELSE Num(IF neg THEN 0 - scan.v ELSE scan.v)

\* parseInt(string) on the option values of a dropdown.
parseInt(str) == parseFloat(str)

\* The quotient a / b, kept exact.
Div(a, b) == [num |-> a, den |-> b]

\* q >= k for a quotient q and an integer k, as IEEE comparison decides it:
\* x / 0 is +-Infinity, 0 / 0 is NaN and compares false.
GreaterEq(q, k) ==
    IF q.den > 0 THEN q.num >= k * q.den
    ELSE IF q.den < 0 THEN q.num <= k * q.den
    ELSE q.num > 0

\* Math.floor(a / b) for b > 0.
Math_floor(a, b) == a \div b

\* Math.ceil(a / b) for b > 0.
Math_ceil(a, b) == 0 - ((0 - a) \div b)

(***************************************************************************)
(* Numbers as the engine holds them: IEEE 754 binary64                     *)
(***************************************************************************)
\* Natural numbers beyond the range of the model checker's integers: the
\* limbs of the number in base 2^15, least significant first, no leading
\* zero limb.
Limb == 32768

RECURSIVE NatOf(_)
NatOf(n) == IF n = 0 THEN << >> ELSE << n % Limb >> \o NatOf(n \div Limb)

RECURSIVE IntOf(_)
IntOf(a) == IF a = << >> THEN 0 ELSE a[1] + Limb * IntOf(Tail(a))

RECURSIVE NatTrim(_)
NatTrim(a) ==
    IF a = << >> THEN a
    ELSE IF a[Len(a)] = 0 THEN NatTrim(SubSeq(a, 1, Len(a) - 1)) ELSE a

RECURSIVE NatAdd(_, _, _)
NatAdd(a, b, carry) ==
    IF a = << >> /\ b = << >>
    THEN IF carry = 0 THEN << >> ELSE << carry >>
    ELSE LET x == (IF a = << >> THEN 0 ELSE a[1])
                  + (IF b = << >> THEN 0 ELSE b[1]) + carry
         IN  << x % Limb >> \o NatAdd(IF a = << >> THEN a ELSE Tail(a),
                                      IF b = << >> THEN b ELSE Tail(b),
                                      x \div Limb)

RECURSIVE NatSubLimbs(_, _, _)
NatSubLimbs(a, b, borrow) ==
    IF a = << >> THEN << >>
    ELSE LET x == a[1] - (IF b = << >> THEN 0 ELSE b[1]) - borrow
         IN  << x % Limb >> \o NatSubLimbs(Tail(a),
                                           IF b = << >> THEN b ELSE Tail(b),
                                           IF x < 0 THEN 1 ELSE 0)

\* a - b for a >= b.
NatSub(a, b) == NatTrim(NatSubLimbs(a, b, 0))

RECURSIVE NatLess(_, _)
\* a < b.
NatLess(a, b) ==
    IF Len(a) # Len(b) THEN Len(a) < Len(b)
    ELSE IF a = << >> THEN FALSE
    ELSE IF a[Len(a)] # b[Len(b)] THEN a[Len(a)] < b[Len(b)]
    ELSE NatLess(SubSeq(a, 1, Len(a) - 1), SubSeq(b, 1, Len(b) - 1))

RECURSIVE NatTimesLimb(_, _, _)
\* a * k + carry for a limb k.
NatTimesLimb(a, k, carry) ==
    IF a = << >> THEN (IF carry = 0 THEN << >> ELSE << carry >>)
    ELSE LET x == a[1] * k + carry
         IN  << x % Limb >> \o NatTimesLimb(Tail(a), k, x \div Limb)

RECURSIVE NatTimes(_, _)
NatTimes(a, b) ==
    IF a = << >> \/ b = << >> THEN << >>
    ELSE LET rest == NatTimes(a, Tail(b))
         IN  NatAdd(NatTimesLimb(a, b[1], 0),
                    IF rest = << >> THEN rest ELSE << 0 >> \o rest, 0)

\* a * 2^bits.
NatShiftLeft(a, bits) ==
    IF a = << >> THEN a
    ELSE [i \in 1..(bits \div 15) |-> 0]
             \o NatTimesLimb(a, 2 ^ (bits % 15), 0)

RECURSIVE NatBits(_)
\* The number of bits of a limb.
NatBits(n) == IF n = 0 THEN 0 ELSE 1 + NatBits(n \div 2)

BitLength(a) ==
    IF a = << >> THEN 0 ELSE 15 * (Len(a) - 1) + NatBits(a[Len(a)])

RECURSIVE NatDivLimb(_, _, _)
\* Quotient and remainder of a by a limb k > 0, from the top limb down; the
\* quotient comes least significant limb first, untrimmed.
NatDivLimb(a, k, rem) ==
    IF a = << >> THEN [q |-> << >>, r |-> rem]
    ELSE LET cur  == rem * Limb + a[Len(a)]
             rest == NatDivLimb(SubSeq(a, 1, Len(a) - 1), k, cur % k)
         IN  [q |-> Append(rest.q, cur \div k), r |-> rest.r]

\* floor(a / 2^bits), and whether a bit was shifted out.
NatShiftRight(a, bits) ==
    LET limbs == bits \div 15
        kept  == IF limbs >= Len(a) THEN << >> ELSE SubSeq(a, limbs + 1, Len(a))
        lost  == \E i \in 1..Len(a) : i <= limbs /\ a[i] # 0
        d     == NatDivLimb(kept, 2 ^ (bits % 15), 0)
    IN  [q |-> NatTrim(d.q), inexact |-> lost \/ d.r # 0]

RECURSIVE QuotientLimb(_, _, _, _)
\* The largest limb q in lo..hi with q * d <= r.
QuotientLimb(r, d, lo, hi) ==
    IF lo = hi THEN lo
    ELSE LET mid == (lo + hi + 1) \div 2
         IN  IF NatLess(r, NatTimesLimb(d, mid, 0))
             THEN QuotientLimb(r, d, lo, mid - 1)
             ELSE QuotientLimb(r, d, mid, hi)

RECURSIVE NatDivide(_, _, _)
\* Long division of a by d > 0, from the top limb down; the quotient comes
\* least significant limb first, untrimmed.
NatDivide(a, d, rem) ==
    IF a = << >> THEN [q |-> << >>, r |-> rem]
    ELSE LET cur   == NatTrim(<< a[Len(a)] >> \o rem)
             limb  == QuotientLimb(cur, d, 0, Limb - 1)
             rest  == NatDivide(SubSeq(a, 1, Len(a) - 1), d,
                                IF limb = 0 THEN cur
                                ELSE NatSub(cur, NatTimesLimb(d, limb, 0)))
         IN  [q |-> Append(rest.q, limb), r |-> rest.r]

\* A number of the engine: NaN, or (-1)^neg * man * 2^exp with man < 2^53
\* or a power of two.
Double(neg, man, exp) == [nan |-> FALSE, neg |-> neg, man |-> man, exp |-> exp]

DoubleNaN == [nan |-> TRUE, neg |-> FALSE, man |-> << >>, exp |-> 0]

DoubleOf(n) == Double(FALSE, NatOf(n), 0)

\* Round to nearest, ties to even: man * 2^exp, plus less than one unit of
\* man when inexact, becomes a number of 53 significant bits.
RoundToDouble(neg, man, exp, inexact) ==
    LET bits == BitLength(man)
    IN  IF bits <= 53 THEN Double(neg, man, exp)
        ELSE LET shift == bits - 53
                 upper == NatShiftRight(man, shift - 1)
                 half  == upper.q[1] % 2 = 1
                 q     == NatTrim(NatDivLimb(upper.q, 2, 0).q)
                 odd   == q[1] % 2 = 1
                 up    == half /\ (upper.inexact \/ inexact \/ odd)
             IN  Double(neg, IF up THEN NatAdd(q, << 1 >>, 0) ELSE q,
                        exp + shift)

DoubleTimes(x, y) ==
    RoundToDouble(x.neg # y.neg, NatTimes(x.man, y.man), x.exp + y.exp, FALSE)

\* x / y for y # 0: the quotient to 55 bits or more, then rounded.
DoubleDivide(x, y) ==
    LET bits == 55 + BitLength(y.man) - BitLength(x.man)
        k    == IF bits > 0 THEN bits ELSE 0
        a    == NatShiftLeft(x.man, k)
        d    == NatDivide(a, y.man, << >>)
    IN  RoundToDouble(x.neg # y.neg, NatTrim(d.q), x.exp - y.exp - k,
                      d.r # << >>)

\* x - y for x, y >= 0.
DoubleMinus(x, y) ==
    LET exp == IF x.exp < y.exp THEN x.exp ELSE y.exp
        a   == NatShiftLeft(x.man, x.exp - exp)
        b   == NatShiftLeft(y.man, y.exp - exp)
    IN  IF NatLess(a, b)
        THEN RoundToDouble(TRUE, NatSub(b, a), exp, FALSE)
        ELSE RoundToDouble(FALSE, NatSub(a, b), exp, FALSE)

\* x + y for x, y >= 0.
DoublePlus(x, y) ==
    LET exp == IF x.exp < y.exp THEN x.exp ELSE y.exp
    IN  RoundToDouble(FALSE,
                      NatAdd(NatShiftLeft(x.man, x.exp - exp),
                             NatShiftLeft(y.man, y.exp - exp), 0),
                      exp, FALSE)

\* x > n for x >= 0 and an integer n >= 0.
DoubleGreater(x, n) == DoubleMinus(DoubleOf(n), x).neg

\* Math.floor(x) for x >= 0 and Math.ceil(x), as integers.
DoubleFloor(x) ==
    IF x.exp >= 0 THEN IntOf(NatShiftLeft(x.man, x.exp))
    ELSE IntOf(NatShiftRight(x.man, 0 - x.exp).q)

DoubleCeil(x) ==
    IF x.exp >= 0
    THEN (IF x.neg THEN 0 - 1 ELSE 1) * IntOf(NatShiftLeft(x.man, x.exp))
    ELSE LET d == NatShiftRight(x.man, 0 - x.exp)
         IN  IF x.neg THEN 0 - IntOf(d.q)
             ELSE IntOf(d.q) + (IF d.inexact THEN 1 ELSE 0)

(***************************************************************************)
(* utils.js: grade scale                                                   *)
(***************************************************************************)
\* The scale with the 55 % threshold moved to 56 %.
getGradePoint_shifted(percentage) ==
    IF GreaterEq(percentage, 80) THEN 10
    ELSE IF GreaterEq(percentage, 70) THEN 9
    ELSE IF GreaterEq(percentage, 60) THEN 8
    ELSE IF GreaterEq(percentage, 56) THEN 7
    ELSE IF GreaterEq(percentage, 50) THEN 6
    ELSE IF GreaterEq(percentage, 45) THEN 5
    ELSE IF GreaterEq(percentage, 40) THEN 4
    ELSE 0

getGradePoint(percentage) ==
    IF GreaterEq(percentage, 80) THEN 10
    ELSE IF GreaterEq(percentage, 70) THEN 9
    ELSE IF GreaterEq(percentage, 60) THEN 8
    ELSE IF GreaterEq(percentage, 55) THEN 7
    ELSE IF GreaterEq(percentage, 50) THEN 6
    ELSE IF GreaterEq(percentage, 45) THEN 5
    ELSE IF GreaterEq(percentage, 40) THEN 4
    ELSE 0

(***************************************************************************)
(* Subject catalog.  The data files js/data/batch-*.js hold the subject    *)
(* arrays; the arrays below follow the schema of the data model and the    *)
(* subjects of its examples: {ise: max 20, ese: max 80} with               *)
(* defaultHighest 100, and a single-field subject {ise: max 20} with       *)
(* defaultHighest 20.                                                      *)
(***************************************************************************)
TheorySubject(id, credits) ==
    [id |-> id, credits |-> credits, defaultHighest |-> 100,
     fields |-> << [name |-> "ise", max |-> 20],
                   [name |-> "ese", max |-> 80] >>]

InternalSubject(id, credits) ==
    [id |-> id, credits |-> credits, defaultHighest |-> 20,
     fields |-> << [name |-> "ise", max |-> 20] >>]

semester1Subjects == << TheorySubject(1, 4), InternalSubject(2, 3) >>

semester2CommonSubjects == << TheorySubject(1, 4) >>

semester2Subject_ComputerAllied == InternalSubject(2, 2)

semester2Subject_ElectronicsAllied == TheorySubject(2, 3)

semester2Subjects_MechRAI == << InternalSubject(2, 2), InternalSubject(3, 1) >>

semester3Subjects_COMP_2024 == << TheorySubject(1, 3), TheorySubject(2, 3) >>

semester3Subjects_RAI_2024 == << TheorySubject(1, 3) >>

semester3Subjects_AIDS_2024 == << TheorySubject(1, 4) >>

semester3Subjects_CSBS_2024 == << InternalSubject(1, 2) >>

semester3Subjects_IT_2024 == << TheorySubject(1, 2), InternalSubject(2, 1) >>

semester4Subjects_COMP_2024 == << TheorySubject(1, 3), InternalSubject(2, 2) >>

semester4Subjects_AIDS_2024 == << TheorySubject(1, 4) >>

semester4Subjects_CSBS_2024 == << InternalSubject(1, 2) >>

semester4Subjects_IT_2024 == << TheorySubject(1, 2) >>

(***************************************************************************)
(* data-config.js: subject retrieval.  The result is [null, list]: null    *)
(* when the combination has no subject list.                               *)
(***************************************************************************)
null == [null |-> TRUE, list |-> << >>]

Found(list) == [null |-> FALSE, list |-> list]

getSubjects(branchId, semesterId, batchId) ==
    IF batchId = "2025-2029" /\ semesterId = 1
    THEN Found(semester1Subjects)
    ELSE IF batchId = "2025-2029" /\ semesterId = 2
    THEN IF branchId \in {"aids", "comp", "cce", "csbs", "it"}
         THEN Found(Append(semester2CommonSubjects,
                           semester2Subject_ComputerAllied))
         ELSE IF branchId \in {"ece", "extc", "vlsi"}
         THEN Found(Append(semester2CommonSubjects,
                           semester2Subject_ElectronicsAllied))
         ELSE IF branchId \in {"mech", "rai"}
         THEN Found(semester2CommonSubjects \o semester2Subjects_MechRAI)
         ELSE null
    ELSE IF batchId = "2024-2028" /\ semesterId = 3
    THEN IF branchId = "comp" THEN Found(semester3Subjects_COMP_2024)
         ELSE IF branchId = "rai" THEN Found(semester3Subjects_RAI_2024)
         ELSE IF branchId = "aids" THEN Found(semester3Subjects_AIDS_2024)
         ELSE IF branchId = "csbs" THEN Found(semester3Subjects_CSBS_2024)
         ELSE IF branchId = "it" THEN Found(semester3Subjects_IT_2024)
         ELSE null
    ELSE IF batchId = "2024-2028" /\ semesterId = 4
    THEN IF branchId = "comp" THEN Found(semester4Subjects_COMP_2024)
         ELSE IF branchId = "aids" THEN Found(semester4Subjects_AIDS_2024)
         ELSE IF branchId = "csbs" THEN Found(semester4Subjects_CSBS_2024)
         ELSE IF branchId = "it" THEN Found(semester4Subjects_IT_2024)
         ELSE null
    ELSE null

(***************************************************************************)
(* Program state                                                           *)
(***************************************************************************)
VARIABLES
    state,              \* state.js: the app-wide state object
    batchSelect,        \* value of the batch dropdown
    branchSelect,       \* value of the branch dropdown
    semesterSelect,     \* value of the semester dropdown
    inputs,             \* values of the inputs of the subject cards
    resultDiv,          \* result area of each subject card
    predictionDiv,      \* prediction text below each ESE field
    outputSection,      \* SGPA output region
    sgpaInput,          \* value of the input sgpa<sem>
    creditsInput,       \* value of the input credits<sem>
    cgpaOutputSection,  \* CGPA output region
    selectionError,     \* error line of the selection screen
    display,            \* style.display of the three screens
    screenTimers,       \* pending fade-out timers of switchScreen, oldest first
    localStorage,       \* the item "cgpaCalcState"
    debouncers,         \* number of debounced savers created since page load
    timeouts,           \* debounced savers whose timer is pending
    printContainer,     \* style.display of the print button of the SGPA
    printArea,          \* the two print tables and their "printable" class
    printTimers,        \* pending 500 ms timers of the print functions
    lastCall,           \* the handler that ran last, and its argument
    probe,              \* grade scale alone: two percentages and their grades
    resume,             \* history: the item of the last save of a selection
                        \* whose marks were not edited since
    debounced,          \* debounce alone: one debounced function, its timers
                        \* and the calls made so far
    trial,              \* predictor and evaluator alone: one subject, the
                        \* values typed, the prediction and the grade point
    lastTarget          \* history: the target of the last switchScreen call
                        \* since the page was loaded, "" before the first

vars ==
    << state, batchSelect, branchSelect, semesterSelect, inputs, resultDiv,
       predictionDiv, outputSection, sgpaInput, creditsInput,
       cgpaOutputSection, selectionError, display, screenTimers,
       localStorage, debouncers, timeouts, printContainer, printArea,
       printTimers, lastCall, probe, resume, debounced, trial,
       lastTarget >>

\* The mutable world the handlers read and write.  A handler is an operator
\* from the world before it runs to the world after it has returned.
World ==
    [state |-> state, batchSelect |-> batchSelect,
     branchSelect |-> branchSelect, semesterSelect |-> semesterSelect,
     inputs |-> inputs, resultDiv |-> resultDiv,
     predictionDiv |-> predictionDiv, outputSection |-> outputSection,
     sgpaInput |-> sgpaInput, creditsInput |-> creditsInput,
     cgpaOutputSection |-> cgpaOutputSection,
     selectionError |-> selectionError, display |-> display,
     screenTimers |-> screenTimers, localStorage |-> localStorage,
     debouncers |-> debouncers, timeouts |-> timeouts,
     printContainer |-> printContainer, printArea |-> printArea,
     printTimers |-> printTimers]

Becomes(w) ==
    /\ state' = w.state
    /\ batchSelect' = w.batchSelect
    /\ branchSelect' = w.branchSelect
    /\ semesterSelect' = w.semesterSelect
    /\ inputs' = w.inputs
    /\ resultDiv' = w.resultDiv
    /\ predictionDiv' = w.predictionDiv
    /\ outputSection' = w.outputSection
    /\ sgpaInput' = w.sgpaInput
    /\ creditsInput' = w.creditsInput
    /\ cgpaOutputSection' = w.cgpaOutputSection
    /\ selectionError' = w.selectionError
    /\ display' = w.display
    /\ screenTimers' = w.screenTimers
    /\ localStorage' = w.localStorage
    /\ debouncers' = w.debouncers
    /\ timeouts' = w.timeouts
    /\ printContainer' = w.printContainer
    /\ printArea' = w.printArea
    /\ printTimers' = w.printTimers

\* "s" + subjectId + "-" + name, the id of an input of a subject card.
InputId(subjectId, name) == << subjectId, name >>

\* Array.prototype.find on a subject list: the index of the first subject
\* with this id, 0 when there is none.
FindSubject(subjects, subjectId) ==
    LET hits == {i \in 1..Len(subjects) : subjects[i].id = subjectId}
    IN  IF hits = {} THEN 0
        ELSE CHOOSE i \in hits : \A j \in hits : i <= j

\* Index of the field named "ese", 0 when the subject has none.
FindEse(subject) ==
    LET hits == {i \in 1..Len(subject.fields) : subject.fields[i].name = "ese"}
    IN  IF hits = {} THEN 0
        ELSE CHOOSE i \in hits : \A j \in hits : i <= j

(***************************************************************************)
(* state.js                                                                *)
(***************************************************************************)
\* JavaScript null in the slots selectedBatch and selectedBranch; the slot
\* selectedSemester holds 0 for null (a selected semester is never 0).
NoSelection == "null"

initialState ==
    [selectedBranch |-> NoSelection, selectedSemester |-> 0,
     selectedBatch |-> NoSelection, currentSubjects |-> << >>,
     gradePoints |-> << >>]

\* The store that keeps the new entry only.
updateGradePoint_replaces(w, subjectId, gp) ==
    [w EXCEPT !.state.gradePoints = (subjectId :> gp)]

updateGradePoint(w, subjectId, gp) ==
    [w EXCEPT !.state.gradePoints = (subjectId :> gp) @@ @]

(***************************************************************************)
(* calculator.js: subject evaluator                                        *)
(***************************************************************************)
NoResult ==
    [kind |-> "none", total |-> 0, highest |-> 0, gradePoint |-> 0,
     defaultHighest |-> 0]

FillAllFields ==
    [kind |-> "FillAllFields", total |-> 0, highest |-> 0, gradePoint |-> 0,
     defaultHighest |-> 0]

HighestExceeds(defaultHighest) ==
    [kind |-> "HighestExceeds", total |-> 0, highest |-> 0, gradePoint |-> 0,
     defaultHighest |-> defaultHighest]

SubjectResult(total, highest, gradePoint) ==
    [kind |-> "Result", total |-> total, highest |-> highest,
     gradePoint |-> gradePoint, defaultHighest |-> 0]

RECURSIVE SumFields_overwrite(_, _, _, _)
\* The loop with total = numValue in place of total += numValue.
SumFields_overwrite(w, subject, i, total) ==
    IF i > Len(subject.fields)
    THEN [allFilled |-> TRUE, total |-> total]
    ELSE LET field == subject.fields[i]
             value == w.inputs[InputId(subject.id, field.name)]
         IN  IF value = << >> \/ isNaN(parseFloat(value))
             THEN [allFilled |-> FALSE, total |-> total]
             ELSE LET numValue == parseFloat(value).v
                  IN  IF numValue < 0 \/ numValue > field.max
                      THEN [allFilled |-> FALSE, total |-> total]
                      ELSE SumFields_overwrite(w, subject, i + 1, numValue)

RECURSIVE SumFields_noMax(_, _, _, _)
\* The loop without the comparison with field.max.
SumFields_noMax(w, subject, i, total) ==
    IF i > Len(subject.fields)
    THEN [allFilled |-> TRUE, total |-> total]
    ELSE LET field == subject.fields[i]
             value == w.inputs[InputId(subject.id, field.name)]
         IN  IF value = << >> \/ isNaN(parseFloat(value))
             THEN [allFilled |-> FALSE, total |-> total]
             ELSE LET numValue == parseFloat(value).v
                  IN  IF numValue < 0
                      THEN [allFilled |-> FALSE, total |-> total]
                      ELSE SumFields_noMax(w, subject, i + 1, total + numValue)

RECURSIVE SumFields(_, _, _, _)
\* The loop over subject.fields: stops at the first empty, non-numeric,
\* negative or over-max value.
SumFields(w, subject, i, total) ==
    IF i > Len(subject.fields)
    THEN [allFilled |-> TRUE, total |-> total]
    ELSE LET field == subject.fields[i]
             value == w.inputs[InputId(subject.id, field.name)]
         IN  IF value = << >> \/ isNaN(parseFloat(value))
             THEN [allFilled |-> FALSE, total |-> total]
             ELSE LET numValue == parseFloat(value).v
                  IN  IF numValue < 0 \/ numValue > field.max
                      THEN [allFilled |-> FALSE, total |-> total]
                      ELSE SumFields(w, subject, i + 1, total + numValue)

\* The resolution with an override above the default clamped to it.
ResolveHighest_clamped(w, subject) ==
    LET parsed == parseFloat(w.inputs[InputId(subject.id, "highest")])
    IN  IF isNaN(parsed) \/ parsed.v = 0 \/ parsed.v > subject.defaultHighest
        THEN subject.defaultHighest
        ELSE parsed.v

\* let highest = parseFloat(highestInput.value);
\* if (isNaN(highest) || highest === 0) highest = subject.defaultHighest;

ResolveHighest(w, subject) ==
    LET parsed == parseFloat(w.inputs[InputId(subject.id, "highest")])
    IN  IF isNaN(parsed) \/ parsed.v = 0
        THEN subject.defaultHighest
        ELSE parsed.v

calculateSubject(w, subjectId) ==
    LET idx == FindSubject(w.state.currentSubjects, subjectId)
    IN  IF idx = 0 THEN w
        ELSE
        LET subject == w.state.currentSubjects[idx]
            loop    == SumFields(w, subject, 1, 0)
            highest == ResolveHighest(w, subject)
        IN  IF ~loop.allFilled
            THEN updateGradePoint(
                     [w EXCEPT !.resultDiv[subjectId] = FillAllFields],
                     subjectId, 0)
            ELSE IF highest > subject.defaultHighest
            THEN updateGradePoint(
                     [w EXCEPT !.resultDiv[subjectId] =
                                   HighestExceeds(subject.defaultHighest)],
                     subjectId, 0)
            ELSE LET percentage == Div(loop.total * 100, highest)
                     gradePoint == getGradePoint(percentage)
                 IN  [updateGradePoint(w, subjectId, gradePoint)
                        EXCEPT !.resultDiv[subjectId] =
                                   SubjectResult(loop.total, highest, gradePoint)]

(***************************************************************************)
(* calculator.js: exam-score predictor                                     *)
(***************************************************************************)
NoPrediction ==
    [kind |-> "empty", currentTotal |-> 0, highest |-> 0, eseMax |-> 0,
     needFor10 |-> 0, needFor9 |-> 0, for10 |-> "", for9 |-> ""]

\* One half of the prediction text: "Already secured", "Need n/eseMax in
\* ESE", or "not possible".
Verdict(need, eseMax) ==
    IF need <= eseMax
    THEN IF need <= 0 THEN "secured" ELSE "need"
    ELSE "notPossible"

RECURSIVE SumNonEse(_, _, _, _, _)
\* The forEach over subject.fields that adds up the non-ESE inputs.
SumNonEse(w, subject, i, currentTotal, anyFieldFilled) ==
    IF i > Len(subject.fields)
    THEN [currentTotal |-> currentTotal, anyFieldFilled |-> anyFieldFilled]
    ELSE LET field == subject.fields[i]
             id    == InputId(subject.id, field.name)
         IN  IF field.name # "ese" /\ id \in DOMAIN w.inputs
                /\ w.inputs[id] # << >>
             THEN LET val == parseFloat(w.inputs[id])
                  IN  SumNonEse(w, subject, i + 1,
                                IF isNaN(val) THEN currentTotal
                                ELSE currentTotal + val.v,
                                TRUE)
             ELSE SumNonEse(w, subject, i + 1, currentTotal, anyFieldFilled)

\* The predictor without the reset of the text once the ESE mark is typed:
\* the prediction shown before stays.
updatePrediction_keepsText(w, subjectId) ==
    LET idx == FindSubject(w.state.currentSubjects, subjectId)
    IN  IF idx = 0 THEN w
        ELSE
        LET subject == w.state.currentSubjects[idx]
            ese     == FindEse(subject)
        IN  IF ese = 0 THEN w
            ELSE IF w.inputs[InputId(subjectId, "ese")] # << >>
            THEN w
            ELSE
            LET loop == SumNonEse(w, subject, 1, 0, FALSE)
            IN  IF ~loop.anyFieldFilled
                THEN [w EXCEPT !.predictionDiv[subjectId] = NoPrediction]
                ELSE
                LET highest   == ResolveHighest(w, subject)
                    needFor10 == Math_ceil(8 * highest - 10 * loop.currentTotal, 10)
                    needFor9  == Math_ceil(7 * highest - 10 * loop.currentTotal, 10)
                    eseMax    == subject.fields[ese].max
                IN  [w EXCEPT !.predictionDiv[subjectId] =
                        [kind |-> "prediction",
                         currentTotal |-> loop.currentTotal,
                         highest |-> highest, eseMax |-> eseMax,
                         needFor10 |-> needFor10, needFor9 |-> needFor9,
                         for10 |-> Verdict(needFor10, eseMax),
                         for9 |-> Verdict(needFor9, eseMax)]]

updatePrediction(w, subjectId) ==
    LET idx == FindSubject(w.state.currentSubjects, subjectId)
    IN  IF idx = 0 THEN w
        ELSE
        LET subject == w.state.currentSubjects[idx]
            ese     == FindEse(subject)
        IN  IF ese = 0 THEN w
            ELSE IF w.inputs[InputId(subjectId, "ese")] # << >>
            THEN [w EXCEPT !.predictionDiv[subjectId] = NoPrediction]
            ELSE
            LET loop == SumNonEse(w, subject, 1, 0, FALSE)
            IN  IF ~loop.anyFieldFilled
                THEN [w EXCEPT !.predictionDiv[subjectId] = NoPrediction]
                ELSE
                LET highest   == ResolveHighest(w, subject)
                    needFor10 == Math_ceil(8 * highest - 10 * loop.currentTotal, 10)
                    needFor9  == Math_ceil(7 * highest - 10 * loop.currentTotal, 10)
                    eseMax    == subject.fields[ese].max
                IN  [w EXCEPT !.predictionDiv[subjectId] =
                        [kind |-> "prediction",
                         currentTotal |-> loop.currentTotal,
                         highest |-> highest, eseMax |-> eseMax,
                         needFor10 |-> needFor10, needFor9 |-> needFor9,
                         for10 |-> Verdict(needFor10, eseMax),
                         for9 |-> Verdict(needFor9, eseMax)]]

(***************************************************************************)
(* calculator.js on marks with a fraction.  The evaluator and the          *)
(* predictor are functions of the subject and of the values typed into its *)
(* inputs; here they are computed in binary64 as the engine computes them, *)
(* on typed, the record of the input values by field name.                 *)
(***************************************************************************)
\* parseFloat on digits with an optional point and more digits: the number
\* nearest to the decimal, which is the rounded quotient of two integers.
parseFloat64(str) ==
    LET whole  == ScanDigits(str, 1, 0)
        point  == whole.end <= Len(str) /\ str[whole.end] = "."
        all    == IF point THEN ScanDigits(str, whole.end + 1, whole.v)
                  ELSE whole
        places == IF point THEN all.end - whole.end - 1 ELSE 0
    IN  IF whole.end = 1 THEN DoubleNaN
        ELSE DoubleDivide(DoubleOf(all.v), DoubleOf(10 ^ places))

RECURSIVE SumFields64(_, _, _, _)
\* The for loop of calculateSubject.
SumFields64(subject, typed, i, total) ==
    IF i > Len(subject.fields) THEN [allFilled |-> TRUE, total |-> total]
    ELSE LET field    == subject.fields[i]
             value    == typed[field.name]
             numValue == parseFloat64(value)
         IN  IF value = << >> \/ numValue.nan
             THEN [allFilled |-> FALSE, total |-> total]
             ELSE IF numValue.neg \/ DoubleGreater(numValue, field.max)
             THEN [allFilled |-> FALSE, total |-> total]
             ELSE SumFields64(subject, typed, i + 1,
                              DoublePlus(total, numValue))

\* let highest = parseFloat(highestInput.value), defaultHighest when it is
\* NaN or 0.
ResolveHighest64(subject, typed) ==
    LET highest == parseFloat64(typed.highest)
    IN  IF highest.nan \/ highest.man = << >>
        THEN DoubleOf(subject.defaultHighest)
        ELSE highest

\* The grade point calculateSubject records.  getGradePoint compares the
\* percentage with whole numbers only, so it is given the floor.
calculateSubject64(subject, typed) ==
    LET loop == SumFields64(subject, typed, 1, DoubleOf(0))
    IN  IF ~loop.allFilled THEN 0
        ELSE
        LET highest == ResolveHighest64(subject, typed)
        IN  IF DoubleGreater(highest, subject.defaultHighest) THEN 0
            ELSE LET percentage ==
                         DoubleTimes(DoubleDivide(loop.total, highest),
                                     DoubleOf(100))
                 IN  getGradePoint(Div(DoubleFloor(percentage), 1))

RECURSIVE SumNonEse64(_, _, _, _, _)
\* The forEach of updatePrediction.
SumNonEse64(subject, typed, i, currentTotal, anyFieldFilled) ==
    IF i > Len(subject.fields)
    THEN [currentTotal |-> currentTotal, anyFieldFilled |-> anyFieldFilled]
    ELSE LET field == subject.fields[i]
         IN  IF field.name # "ese" /\ typed[field.name] # << >>
             THEN LET val == parseFloat64(typed[field.name])
                  IN  SumNonEse64(subject, typed, i + 1,
                                  IF val.nan THEN currentTotal
                                  ELSE DoublePlus(currentTotal, val),
                                  TRUE)
             ELSE SumNonEse64(subject, typed, i + 1, currentTotal,
                              anyFieldFilled)

\* Math.ceil(tenths / 10 * highest - currentTotal) for the literals 0.8 and
\* 0.7.
NeedFor(tenths, highest, currentTotal) ==
    DoubleCeil(
        DoubleMinus(
            DoubleTimes(DoubleDivide(DoubleOf(tenths), DoubleOf(10)), highest),
            currentTotal))

\* The prediction text updatePrediction leaves for the subject.
updatePrediction64(subject, typed) ==
    LET ese == FindEse(subject)
    IN  IF ese = 0 \/ typed.ese # << >> THEN NoPrediction
        ELSE
        LET loop == SumNonEse64(subject, typed, 1, DoubleOf(0), FALSE)
        IN  IF ~loop.anyFieldFilled THEN NoPrediction
            ELSE
            LET highest   == ResolveHighest64(subject, typed)
                needFor10 == NeedFor(8, highest, loop.currentTotal)
                needFor9  == NeedFor(7, highest, loop.currentTotal)
                eseMax    == subject.fields[ese].max
            IN  [NoPrediction EXCEPT
                    !.kind = "prediction", !.eseMax = eseMax,
                    !.needFor10 = needFor10, !.needFor9 = needFor9,
                    !.for10 = Verdict(needFor10, eseMax),
                    !.for9 = Verdict(needFor9, eseMax)]

RECURSIVE MarkText(_)
\* The decimal digits of the whole number n >= 0.
MarkText(n) ==
    LET digit == << "0", "1", "2", "3", "4", "5", "6", "7", "8", "9" >>
    IN  IF n < 10 THEN << digit[n + 1] >>
        ELSE Append(MarkText(n \div 10), digit[(n % 10) + 1])

\* One subject with nothing typed, predicted or calculated.
Trial(subject, typed) ==
    [subject |-> subject, typed |-> typed, predicted |-> FALSE,
     prediction |-> NoPrediction, score |-> 0 - 1, gradePoint |-> 0 - 1]

NoTrial ==
    Trial(TheorySubject(1, 4), [ise |-> << >>, ese |-> << >>, highest |-> << >>])

(***************************************************************************)
(* ui.js                                                                   *)
(***************************************************************************)
screens == << "selectionScreen", "calculatorScreen", "cgpaCalculatorScreen" >>

\* showTarget: the selection screen is a flex box, the others are blocks.
showTarget(w, toScreenId) ==
    [w EXCEPT !.display[toScreenId] =
                  IF toScreenId = "selectionScreen" THEN "flex" ELSE "block"]

\* switchScreen(toScreenId, onComplete): the first displayed screen is faded
\* out by a 300 ms timer that then shows the target; with no displayed
\* screen the target is shown at once.  onComplete only edits class lists.
switchScreen(w, toScreenId) ==
    LET shown == {i \in 1..Len(screens) : w.display[screens[i]] # "none"}
    IN  IF shown # {}
        THEN LET first == CHOOSE i \in shown : \A j \in shown : i <= j
             IN  [w EXCEPT !.screenTimers =
                               Append(@, [from |-> screens[first],
                                          to |-> toScreenId])]
        ELSE showTarget(w, toScreenId)

\* The callback of the oldest fade-out timer: the screen it faded out is
\* hidden, then the target is shown.
fadeOutDone(w) ==
    LET timer == Head(w.screenTimers)
    IN  showTarget([w EXCEPT !.display[timer.from] = "none",
                             !.screenTimers = Tail(@)],
                   timer.to)

\* showError(message); the message hides itself after 5 s.
showError(w, message) ==
    [w EXCEPT !.selectionError = [text |-> message, display |-> "block"]]

\* Every input of one freshly rendered subject card.
CardInputs(subject) ==
    {InputId(subject.id, subject.fields[j].name) :
        j \in 1..Len(subject.fields)} \cup {InputId(subject.id, "highest")}

\* createSubjectCards(subjects): the grid is replaced by new, blank cards.
createSubjectCards(w, subjects) ==
    LET all  == 1..Len(subjects)
        ids  == {subjects[i].id : i \in all}
        eses == {subjects[i].id : i \in {k \in all : FindEse(subjects[k]) # 0}}
    IN  [w EXCEPT
            !.inputs = [id \in UNION {CardInputs(subjects[i]) : i \in all}
                           |-> << >>],
            !.resultDiv = [id \in ids |-> NoResult],
            !.predictionDiv = [id \in eses |-> NoPrediction]]

(***************************************************************************)
(* main.js: persistence                                                    *)
(***************************************************************************)
NoItem ==
    [present |-> FALSE, batch |-> NoSelection, branch |-> NoSelection,
     semester |-> 0, marks |-> << >>, cgpa |-> << >>]

\* The marks object of one subject: its fields in order, then "highest".
SavedMarks(w, subject) ==
    [j \in 1..(Len(subject.fields) + 1) |->
        LET name == IF j <= Len(subject.fields)
                    THEN subject.fields[j].name ELSE "highest"
        IN  [key |-> name, value |-> w.inputs[InputId(subject.id, name)]]]

\* saveState(): selection, marks of every current subject and the eight
\* CGPA rows go to localStorage as one item.  JSON keeps strings, numbers
\* and null as they are.
saveState(w) ==
    LET subs == w.state.currentSubjects
    IN  [w EXCEPT !.localStorage =
            [present  |-> TRUE,
             batch    |-> w.state.selectedBatch,
             branch   |-> w.state.selectedBranch,
             semester |-> w.state.selectedSemester,
             marks    |-> [id \in {subs[i].id : i \in 1..Len(subs)} |->
                              SavedMarks(w, subs[FindSubject(subs, id)])],
             cgpa     |-> [s \in DOMAIN w.sgpaInput |->
                              [sgpa |-> w.sgpaInput[s],
                               credits |-> w.creditsInput[s]]]]]

RECURSIVE RestoreKeys(_, _, _, _)
\* Object.keys(marks).forEach: every key but "elective" and "highest" sets
\* its input and re-runs the predictor.
RestoreKeys(w, subId, marks, k) ==
    IF k > Len(marks) THEN w
    ELSE LET key == marks[k].key
             id  == InputId(subId, key)
         IN  IF key # "elective" /\ key # "highest" /\ id \in DOMAIN w.inputs
             THEN RestoreKeys(
                      updatePrediction(
                          [w EXCEPT !.inputs[id] = marks[k].value], subId),
                      subId, marks, k + 1)
             ELSE RestoreKeys(w, subId, marks, k + 1)

\* The value saved under "highest", << >> when there is none.
SavedHighest(marks) ==
    LET hits == {k \in 1..Len(marks) : marks[k].key = "highest"}
    IN  IF hits = {} THEN << >> ELSE marks[CHOOSE k \in hits : TRUE].value

RECURSIVE RestoreSubjects(_, _, _)
\* Object.keys(data.marks).forEach, in ascending order of the subject ids.
RestoreSubjects(w, data, todo) ==
    IF todo = {} THEN w
    ELSE LET subId   == CHOOSE i \in todo : \A j \in todo : i <= j
             marks   == data.marks[subId]
             highest == SavedHighest(marks)
             hid     == InputId(subId, "highest")
             w1      == IF highest # << >> /\ hid \in DOMAIN w.inputs
                        THEN [w EXCEPT !.inputs[hid] = highest]
                        ELSE w
         IN  RestoreSubjects(RestoreKeys(w1, subId, marks, 1), data,
                             todo \ {subId})

\* restoreMarksForCurrentSelection(): only when the saved selection is the
\* one in the dropdowns.
restoreMarksForCurrentSelection(w) ==
    LET data            == w.localStorage
        currentSemester == parseInt(w.semesterSelect)
    IN  IF ~data.present THEN w
        ELSE IF /\ data.batch = w.batchSelect
                /\ data.branch = w.branchSelect
                /\ ~isNaN(currentSemester)
                /\ data.semester = currentSemester.v
             THEN RestoreSubjects(w, data, DOMAIN data.marks)
             ELSE w

\* addAutoSaveListeners(): a new debounced saver is attached to every input
\* and select of the document.  The saver created last is the only one on
\* the inputs of the subject cards; the dropdowns and the CGPA rows carry
\* every saver created since the page was loaded.
addAutoSaveListeners(w) == [w EXCEPT !.debouncers = @ + 1]

\* An input or change event on a dropdown or a CGPA input: every debounced
\* saver (re)starts its timer.
StaticInputEvent(w) == [w EXCEPT !.timeouts = 1..w.debouncers]

\* An input or change event on an input of a subject card.
CardInputEvent(w) == [w EXCEPT !.timeouts = @ \cup {w.debouncers}]

(***************************************************************************)
(* main.js: screen navigation                                              *)
(***************************************************************************)
\* proceedToCalculator with the selection stored before the subject list
\* is looked up.
proceedToCalculator_storesFirst(w) ==
    LET batchId    == w.batchSelect
        branchId   == w.branchSelect
        semesterId == parseInt(w.semesterSelect)
    IN  IF batchId = "" THEN showError(w, "Please select a batch")
        ELSE IF branchId = "" THEN showError(w, "Please select a branch")
        ELSE IF isNaN(semesterId) \/ semesterId.v = 0
        THEN showError(w, "Please select a semester")
        ELSE
        LET subjects == getSubjects(branchId, semesterId.v, batchId)
            w1 == [w EXCEPT !.state.selectedBatch = batchId,
                            !.state.selectedBranch = branchId,
                            !.state.selectedSemester = semesterId.v,
                            !.state.currentSubjects = subjects.list]
        IN  IF subjects.null
            THEN showError(w1,
                   "Data for the selected combination is not available yet")
            ELSE
            LET w2 == switchScreen(w1, "calculatorScreen")
                w3 == createSubjectCards(w2, subjects.list)
                w4 == restoreMarksForCurrentSelection(w3)
            IN  addAutoSaveListeners(saveState(w4))

proceedToCalculator(w) ==
    LET batchId    == w.batchSelect
        branchId   == w.branchSelect
        semesterId == parseInt(w.semesterSelect)
    IN  IF batchId = "" THEN showError(w, "Please select a batch")
        ELSE IF branchId = "" THEN showError(w, "Please select a branch")
        ELSE IF isNaN(semesterId) \/ semesterId.v = 0
        THEN showError(w, "Please select a semester")
        ELSE
        LET subjects == getSubjects(branchId, semesterId.v, batchId)
        IN  IF subjects.null
            THEN showError(w,
                   "Data for the selected combination is not available yet")
            ELSE
            LET w1 == [w EXCEPT !.state.selectedBatch = batchId,
                                !.state.selectedBranch = branchId,
                                !.state.selectedSemester = semesterId.v,
                                !.state.currentSubjects = subjects.list]
                w2 == switchScreen(w1, "calculatorScreen")
                w3 == createSubjectCards(w2, subjects.list)
                w4 == restoreMarksForCurrentSelection(w3)
            IN  addAutoSaveListeners(saveState(w4))

SGPAPlaceholder ==
    [kind |-> "placeholder", totalCreditPoints |-> 0, totalCredits |-> 0]

SGPAError ==
    [kind |-> "error", totalCreditPoints |-> 0, totalCredits |-> 0]

CGPAPlaceholder ==
    [kind |-> "placeholder", sem |-> 0, totalCreditPoints |-> 0,
     totalCredits |-> 0, semestersEntered |-> 0]

SGPAOutOfRange(sem) ==
    [kind |-> "SGPAOutOfRange", sem |-> sem, totalCreditPoints |-> 0,
     totalCredits |-> 0, semestersEntered |-> 0]

NoValidSemesters ==
    [kind |-> "NoValidSemesters", sem |-> 0, totalCreditPoints |-> 0,
     totalCredits |-> 0, semestersEntered |-> 0]

proceedToCGPACalculator(w) ==
    [switchScreen(w, "cgpaCalculatorScreen")
        EXCEPT !.cgpaOutputSection = CGPAPlaceholder]

EmptyMap == [x \in {} |-> 0]

changeSelection(w) ==
    LET w1 == [w EXCEPT
                  !.state = initialState,
                  !.inputs = EmptyMap,
                  !.resultDiv = EmptyMap,
                  !.predictionDiv = EmptyMap,
                  !.outputSection = SGPAPlaceholder,
                  !.sgpaInput = [s \in DOMAIN w.sgpaInput |-> << >>],
                  !.creditsInput = [s \in DOMAIN w.creditsInput |-> << >>],
                  !.cgpaOutputSection = CGPAPlaceholder,
                  !.batchSelect = "",
                  !.branchSelect = "",
                  !.semesterSelect = << >>]
    IN  switchScreen(w1, "selectionScreen")

(***************************************************************************)
(* main.js: SGPA aggregator                                                *)
(***************************************************************************)
\* The validity scan over every field of every current subject.
AllValid(w) ==
    LET subs == w.state.currentSubjects
    IN  \A i \in 1..Len(subs) : \A j \in 1..Len(subs[i].fields) :
            LET field == subs[i].fields[j]
                value == w.inputs[InputId(subs[i].id, field.name)]
                val   == parseFloat(value)
            IN  ~(isNaN(val) \/ value = << >> \/ val.v < 0 \/ val.v > field.max)

RECURSIVE CalculateAll_keepsRecorded(_, _, _)
\* The loop that evaluates only the subjects without a recorded grade point.
CalculateAll_keepsRecorded(w, subs, i) ==
    IF i > Len(subs) THEN w
    ELSE IF subs[i].id \in DOMAIN w.state.gradePoints
    THEN CalculateAll_keepsRecorded(w, subs, i + 1)
    ELSE CalculateAll_keepsRecorded(calculateSubject(w, subs[i].id), subs, i + 1)

RECURSIVE CalculateAll(_, _, _)
\* currentSubjects.forEach((sub) => calculateSubject(sub.id))
CalculateAll(w, subs, i) ==
    IF i > Len(subs) THEN w
    ELSE CalculateAll(calculateSubject(w, subs[i].id), subs, i + 1)

\* freshState.gradePoints[subject.id] || 0
RecordedOrZero(gradePoints, id) ==
    IF id \in DOMAIN gradePoints THEN gradePoints[id] ELSE 0

RECURSIVE SumCredits_unweighted(_, _, _, _, _)
\* The accumulation without the credit weights.
SumCredits_unweighted(gradePoints, subs, i, totalCreditPoints, totalCredits) ==
    IF i > Len(subs)
    THEN [totalCreditPoints |-> totalCreditPoints,
          totalCredits |-> totalCredits]
    ELSE SumCredits_unweighted(gradePoints, subs, i + 1,
                    totalCreditPoints + RecordedOrZero(gradePoints, subs[i].id),
                    totalCredits + 1)

RECURSIVE SumCredits(_, _, _, _, _)
\* The forEach that accumulates totalCreditPoints and totalCredits.
SumCredits(gradePoints, subs, i, totalCreditPoints, totalCredits) ==
    IF i > Len(subs)
    THEN [totalCreditPoints |-> totalCreditPoints,
          totalCredits |-> totalCredits]
    ELSE SumCredits(gradePoints, subs, i + 1,
                    totalCreditPoints
                      + RecordedOrZero(gradePoints, subs[i].id) * subs[i].credits,
                    totalCredits + subs[i].credits)

calculateOverallSGPA(w) ==
    IF ~AllValid(w)
    THEN [w EXCEPT !.outputSection = SGPAError]
    ELSE LET subs == w.state.currentSubjects
             w1   == CalculateAll(w, subs, 1)
             sums == SumCredits(w1.state.gradePoints, subs, 1, 0, 0)
         IN  [w1 EXCEPT !.outputSection =
                 [kind |-> "sgpa",
                  totalCreditPoints |-> sums.totalCreditPoints,
                  totalCredits |-> sums.totalCredits],
                        !.printContainer = "block"]

(***************************************************************************)
(* main.js: CGPA aggregator                                                *)
(***************************************************************************)
NumSemesters == 8

RECURSIVE SemesterLoop_zeroContributor(_, _, _, _, _)
\* The loop with a row without a positive sgpa counted as sgpa 0: its
\* credits are added to totalCredits.
SemesterLoop_zeroContributor(w, sem, totalCreditPoints, totalCredits, semestersEntered) ==
    IF sem > NumSemesters
    THEN IF semestersEntered = 0
         THEN NoValidSemesters
         ELSE [kind |-> "cgpa", sem |-> 0,
               totalCreditPoints |-> totalCreditPoints,
               totalCredits |-> totalCredits,
               semestersEntered |-> semestersEntered]
    ELSE IF sem \notin DOMAIN w.sgpaInput \/ sem \notin DOMAIN w.creditsInput
    THEN SemesterLoop_zeroContributor(w, sem + 1, totalCreditPoints, totalCredits,
             semestersEntered)
    ELSE LET sgpaValue    == parseFloat(w.sgpaInput[sem])
             creditsValue == parseFloat(w.creditsInput[sem])
         IN  IF ~isNaN(creditsValue) /\ creditsValue.v > 0
             THEN IF ~isNaN(sgpaValue) /\ sgpaValue.v > 10
                  THEN SGPAOutOfRange(sem)
                  ELSE IF ~isNaN(sgpaValue) /\ sgpaValue.v > 0
                  THEN SemesterLoop_zeroContributor(w, sem + 1,
                           totalCreditPoints + sgpaValue.v * creditsValue.v,
                           totalCredits + creditsValue.v,
                           semestersEntered + 1)
                  ELSE SemesterLoop_zeroContributor(w, sem + 1,
                           totalCreditPoints,
                           totalCredits + creditsValue.v,
                           semestersEntered)
             ELSE SemesterLoop_zeroContributor(w, sem + 1, totalCreditPoints,
                                               totalCredits, semestersEntered)

RECURSIVE SemesterLoop_noEmptyCheck(_, _, _, _, _)
\* The loop without the semestersEntered === 0 exit: the division is made
\* whatever was entered.
SemesterLoop_noEmptyCheck(w, sem, totalCreditPoints, totalCredits, semestersEntered) ==
    IF sem > NumSemesters
    THEN [kind |-> "cgpa", sem |-> 0,
          totalCreditPoints |-> totalCreditPoints,
          totalCredits |-> totalCredits,
          semestersEntered |-> semestersEntered]
    ELSE IF sem \notin DOMAIN w.sgpaInput \/ sem \notin DOMAIN w.creditsInput
    THEN SemesterLoop_noEmptyCheck(w, sem + 1, totalCreditPoints, totalCredits,
             semestersEntered)
    ELSE LET sgpaValue    == parseFloat(w.sgpaInput[sem])
             creditsValue == parseFloat(w.creditsInput[sem])
         IN  IF /\ ~isNaN(sgpaValue)
                /\ ~isNaN(creditsValue)
                /\ sgpaValue.v > 0
                /\ creditsValue.v > 0
             THEN IF sgpaValue.v > 10
                  THEN SGPAOutOfRange(sem)
                  ELSE SemesterLoop_noEmptyCheck(w, sem + 1,
                           totalCreditPoints + sgpaValue.v * creditsValue.v,
                           totalCredits + creditsValue.v,
                           semestersEntered + 1)
             ELSE SemesterLoop_noEmptyCheck(w, sem + 1, totalCreditPoints,
                                            totalCredits, semestersEntered)

RECURSIVE SemesterLoop(_, _, _, _, _)
\* for (sem = 1; sem <= 8; sem++): rows with positive sgpa and credits are
\* added up; such a row with sgpa > 10 ends the computation.
SemesterLoop(w, sem, totalCreditPoints, totalCredits, semestersEntered) ==
    IF sem > NumSemesters
    THEN IF semestersEntered = 0
         THEN NoValidSemesters
         ELSE [kind |-> "cgpa", sem |-> 0,
               totalCreditPoints |-> totalCreditPoints,
               totalCredits |-> totalCredits,
               semestersEntered |-> semestersEntered]
    ELSE IF sem \notin DOMAIN w.sgpaInput \/ sem \notin DOMAIN w.creditsInput
    THEN SemesterLoop(w, sem + 1, totalCreditPoints, totalCredits,
                      semestersEntered)
    ELSE LET sgpaValue    == parseFloat(w.sgpaInput[sem])
             creditsValue == parseFloat(w.creditsInput[sem])
         IN  IF /\ ~isNaN(sgpaValue)
                /\ ~isNaN(creditsValue)
                /\ sgpaValue.v > 0
                /\ creditsValue.v > 0
             THEN IF sgpaValue.v > 10
                  THEN SGPAOutOfRange(sem)
                  ELSE SemesterLoop(w, sem + 1,
                           totalCreditPoints + sgpaValue.v * creditsValue.v,
                           totalCredits + creditsValue.v,
                           semestersEntered + 1)
             ELSE SemesterLoop(w, sem + 1, totalCreditPoints, totalCredits,
                               semestersEntered)

calculateCGPA(w) ==
    [w EXCEPT !.cgpaOutputSection = SemesterLoop(w, 1, 0, 0, 0)]

(***************************************************************************)
(* print.js: the SGPA report and the CGPA report                           *)
(***************************************************************************)
NoFooter == [present |-> FALSE, totalCredits |-> 0, totalCreditPoints |-> 0]

Footer(totalCredits, totalCreditPoints) ==
    [present |-> TRUE, totalCredits |-> totalCredits,
     totalCreditPoints |-> totalCreditPoints]

NoHeader == [batch |-> "", branch |-> "", semester |-> 0]

\* The two hidden print areas as the page is loaded.
NoPrint ==
    [sgpa    |-> [header |-> NoHeader, rows |-> << >>, footer |-> NoFooter,
                  printable |-> FALSE],
     overall |-> [rows |-> << >>, footer |-> NoFooter, printable |-> FALSE]]

\* parseFloat(val) || 0
NumberOrZero(str) == IF isNaN(parseFloat(str)) THEN 0 ELSE parseFloat(str).v

RECURSIVE PrintedTotal(_, _, _, _)
\* The inner while loop of printResult: totalMarks of one subject.
PrintedTotal(w, subject, j, totalMarks) ==
    IF j > Len(subject.fields) THEN totalMarks
    ELSE LET id  == InputId(subject.id, subject.fields[j].name)
             val == IF id \in DOMAIN w.inputs THEN w.inputs[id] ELSE << >>
         IN  PrintedTotal(w, subject, j + 1, totalMarks + NumberOrZero(val))

\* The values of the fields of one subject as they are printed.
PrintedMarks(w, subject) ==
    [j \in 1..Len(subject.fields) |->
        LET id == InputId(subject.id, subject.fields[j].name)
        IN  IF id \in DOMAIN w.inputs THEN w.inputs[id] ELSE << >>]

\* "Highest" of a printed row.
PrintedHighest(w, subject) ==
    LET id      == InputId(subject.id, "highest")
        highest == IF id \in DOMAIN w.inputs THEN parseFloat(w.inputs[id])
                   ELSE Num(subject.defaultHighest)
    IN  IF isNaN(highest) \/ highest.v = 0 THEN subject.defaultHighest
        ELSE highest.v

\* One row of the SGPA report.
PrintedRow(w, subject) ==
    LET gp == RecordedOrZero(w.state.gradePoints, subject.id)
    IN  [id |-> subject.id, marks |-> PrintedMarks(w, subject),
         totalMarks |-> PrintedTotal(w, subject, 1, 0),
         highest |-> PrintedHighest(w, subject),
         credits |-> subject.credits, gp |-> gp,
         creditPoints |-> gp * subject.credits]

\* printResult(): header, one row per current subject, the footer with the
\* totals; the print area is shown and the first 500 ms timer started.
printResult(w) ==
    LET subs == w.state.currentSubjects
        rows == [i \in 1..Len(subs) |-> PrintedRow(w, subs[i])]
        sums == SumCredits(w.state.gradePoints, subs, 1, 0, 0)
    IN  [w EXCEPT
            !.printArea.sgpa =
                [header |-> [batch |-> w.state.selectedBatch,
                             branch |-> w.state.selectedBranch,
                             semester |-> w.state.selectedSemester],
                 rows |-> rows,
                 footer |-> Footer(sums.totalCredits, sums.totalCreditPoints),
                 printable |-> TRUE],
            !.printTimers = Append(@, [area |-> "sgpa", step |-> "print"])]

RECURSIVE SumOfRows(_, _, _)
\* totalCredits or totalCreditPoints of the rows from the k-th on.
SumOfRows(rows, k, what) ==
    IF k > Len(rows) THEN 0
    ELSE (IF what = "credits" THEN rows[k].credits
          ELSE rows[k].sgpa * rows[k].credits) + SumOfRows(rows, k + 1, what)

RECURSIVE OverallRows(_, _, _)
\* The while loop of printOverallResult: a row for every semester with a
\* positive sgpa and positive credits.
OverallRows(w, sem, rows) ==
    IF sem > NumSemesters THEN rows
    ELSE IF sem \notin DOMAIN w.sgpaInput \/ sem \notin DOMAIN w.creditsInput
    THEN OverallRows(w, sem + 1, rows)
    ELSE LET sgpaValue    == parseFloat(w.sgpaInput[sem])
             creditsValue == parseFloat(w.creditsInput[sem])
         IN  IF /\ ~isNaN(sgpaValue)
                /\ ~isNaN(creditsValue)
                /\ sgpaValue.v > 0
                /\ creditsValue.v > 0
             THEN OverallRows(w, sem + 1,
                      Append(rows, [sem |-> sem, sgpa |-> sgpaValue.v,
                                    credits |-> creditsValue.v]))
             ELSE OverallRows(w, sem + 1, rows)

\* printOverallResult(): the table body is rebuilt; without a row the alert
\* is shown and the function returns, else the footer is written, the area
\* shown and the timer started.
printOverallResult(w) ==
    LET rows == OverallRows(w, 1, << >>)
        w1   == [w EXCEPT !.printArea.overall.rows =
                     [k \in 1..Len(rows) |->
                         [sem |-> rows[k].sem, sgpa |-> rows[k].sgpa]]]
    IN  IF Len(rows) = 0 THEN w1
        ELSE [w1 EXCEPT
                 !.printArea.overall.footer =
                     Footer(SumOfRows(rows, 1, "credits"),
                            SumOfRows(rows, 1, "creditPoints")),
                 !.printArea.overall.printable = TRUE,
                 !.printTimers = Append(@, [area |-> "overall",
                                            step |-> "print"])]

\* The oldest print timer fires: the first one of a call prints and starts
\* the second, the second takes the class "printable" off the area.
printTimerDone(w) ==
    LET timer == Head(w.printTimers)
        rest  == Tail(w.printTimers)
    IN  IF timer.step = "print"
        THEN [w EXCEPT !.printTimers =
                 Append(rest, [area |-> timer.area, step |-> "hide"])]
        ELSE [w EXCEPT !.printTimers = rest,
                       !.printArea[timer.area].printable = FALSE]

(***************************************************************************)
(* main.js: page load                                                      *)
(***************************************************************************)
RECURSIVE NumberToString(_)
\* String(n) for a non-negative integer.
NumberToString(n) ==
    LET digit == << "0", "1", "2", "3", "4", "5", "6", "7", "8", "9" >>
    IN  IF n < 10 THEN << digit[n + 1] >>
        ELSE Append(NumberToString(n \div 10), digit[(n % 10) + 1])

\* loadState(): the CGPA rows and the three dropdowns are restored from the
\* saved item; x || "" and the truthiness test leave out null, 0 and "".
loadState(w) ==
    LET data == w.localStorage
    IN  IF ~data.present THEN w
        ELSE
        LET w1 == [w EXCEPT
                      !.sgpaInput = [s \in DOMAIN w.sgpaInput |->
                                       IF s \in DOMAIN data.cgpa
                                       THEN data.cgpa[s].sgpa ELSE @[s]],
                      !.creditsInput = [s \in DOMAIN w.creditsInput |->
                                       IF s \in DOMAIN data.cgpa
                                       THEN data.cgpa[s].credits ELSE @[s]]]
        IN  IF /\ data.batch \notin {NoSelection, ""}
               /\ data.branch \notin {NoSelection, ""}
               /\ data.semester # 0
            THEN [w1 EXCEPT !.batchSelect = data.batch,
                            !.branchSelect = data.branch,
                            !.semesterSelect = NumberToString(data.semester)]
            ELSE w1

\* The document as the browser builds it from the page, before any script
\* has run; localStorage outlives the page.
FreshPage(storage) ==
    [state |-> initialState,
     batchSelect |-> "", branchSelect |-> "", semesterSelect |-> << >>,
     inputs |-> EmptyMap, resultDiv |-> EmptyMap, predictionDiv |-> EmptyMap,
     outputSection |-> SGPAPlaceholder,
     sgpaInput |-> [s \in 1..NumSemesters |-> << >>],
     creditsInput |-> [s \in 1..NumSemesters |-> << >>],
     cgpaOutputSection |-> CGPAPlaceholder,
     selectionError |-> [text |-> "", display |-> "none"],
     display |-> [selectionScreen |-> "flex", calculatorScreen |-> "none",
                  cgpaCalculatorScreen |-> "none"],
     screenTimers |-> << >>,
     localStorage |-> storage,
     debouncers |-> 0,
     timeouts |-> {},
     printContainer |-> "none",
     printArea |-> NoPrint,
     printTimers |-> << >>]

\* The DOMContentLoaded listener.
DOMContentLoaded(w) == addAutoSaveListeners(loadState(w))

(***************************************************************************)
(* Bounds of the model and the values the user enters                      *)
(***************************************************************************)
\* Rows of the CGPA form the user fills in (the form has NumSemesters rows).
MaxSemRows == 2

\* Fade-out timers of switchScreen that may be pending at once.
MaxScreenTimers == 2

\* Calculator sessions opened between two page loads.
MaxSessions == 2

\* Print timers that may be pending at once.
MaxPrintTimers == 1

\* Calls of one debounced function, the clock ticks they are spread over and
\* the longest wait, in ticks.
MaxCalls == 3

MaxTime == 4

MaxWait == 2

Batches == {"", "2025-2029", "2024-2028"}

Branches == {"", "comp", "cce"}

Semesters == {<< >>, << "1" >>, << "3" >>, << "5" >>}

\* What the user enters into the input id = << subject, name >>: blank,
\* text, a negative number, marks within and above the maximum; for the
\* highest total zero, a negative number, a lower and a higher total than
\* the default.
TypedMarks(id) ==
    IF id[1] = 1
    THEN IF id[2] = "ise"
         THEN {<< >>, << "a", "b", "c" >>, << "-", "1" >>, << "1", "5" >>,
               << "2", "1" >>}
         ELSE IF id[2] = "ese"
         THEN {<< >>, << "6", "5" >>, << "8", "1" >>}
         ELSE {<< >>, << "0" >>, << "-", "5" >>, << "3", "3" >>,
               << "1", "2", "0" >>}
    ELSE IF id[2] = "highest"
         THEN {<< >>, << "1", "2", "0" >>}
         ELSE {<< >>, << "1", "2" >>, << "2", "1" >>}

TypedSGPA == {<< >>, << "-", "1" >>, << "9" >>, << "1", "1" >>}

TypedCredits == {<< >>, << "0" >>, << "2", "0" >>}

(***************************************************************************)
(* Initial state and the events of the page                                *)
(***************************************************************************)
Starts(w) ==
    /\ state = w.state
    /\ batchSelect = w.batchSelect
    /\ branchSelect = w.branchSelect
    /\ semesterSelect = w.semesterSelect
    /\ inputs = w.inputs
    /\ resultDiv = w.resultDiv
    /\ predictionDiv = w.predictionDiv
    /\ outputSection = w.outputSection
    /\ sgpaInput = w.sgpaInput
    /\ creditsInput = w.creditsInput
    /\ cgpaOutputSection = w.cgpaOutputSection
    /\ selectionError = w.selectionError
    /\ display = w.display
    /\ screenTimers = w.screenTimers
    /\ localStorage = w.localStorage
    /\ debouncers = w.debouncers
    /\ timeouts = w.timeouts
    /\ printContainer = w.printContainer
    /\ printArea = w.printArea
    /\ printTimers = w.printTimers

Called(handler, arg) == [handler |-> handler, arg |-> arg]

(***************************************************************************)
(* utils.js: debounce                                                      *)
(***************************************************************************)
\* The entry setTimeout(later, wait) makes in the timer table of the
\* browser; args are the arguments the closure later has captured.
Timer(handle, due, args) == [handle |-> handle, due |-> due, args |-> args]

\* clearTimeout(handle): no effect when no pending timer has the handle.
clearTimeout(timers, handle) == {t \in timers : t.handle # handle}

\* debounce(func, wait) returns executedFunction with `let timeout`
\* undefined.  The record holds the closure (wait, timeout), the clock and
\* the pending timers of the browser (now, timers, handles issued) and the
\* history of the calls of executedFunction and of func.
debounce(wait) ==
    [wait |-> wait, timeout |-> 0, now |-> 0, timers |-> {}, handles |-> 0,
     calls |-> << >>, invoked |-> << >>]

\* The value of the variable while the page is modelled.
NotDebounced == debounce(0)

executedFunction_keepsTimer(d, args) ==
    LET handle == d.handles + 1
    IN  [d EXCEPT !.timers = @ \cup {Timer(handle, d.now + d.wait, args)},
                  !.timeout = handle,
                  !.handles = handle,
                  !.calls = Append(@, [args |-> args, at |-> d.now])]

\* executedFunction(...args): clearTimeout(timeout);
\* timeout = setTimeout(later, wait).
executedFunction(d, args) ==
    LET handle == d.handles + 1
    IN  [d EXCEPT !.timers = clearTimeout(@, d.timeout)
                                \cup {Timer(handle, d.now + d.wait, args)},
                  !.timeout = handle,
                  !.handles = handle,
                  !.calls = Append(@, [args |-> args, at |-> d.now])]

\* The timer t fires and leaves the timer table; later() runs
\* clearTimeout(timeout); func(...args).
later(d, t) ==
    [d EXCEPT !.timers = clearTimeout(@ \ {t}, d.timeout),
              !.invoked = Append(@, [args |-> t.args, at |-> d.now,
                                     calls |-> Len(d.calls)])]

\* First visit: nothing saved yet.
NoProbe ==
    [p |-> Div(0, 1), q |-> Div(0, 1), gradeP |-> 0 - 1, gradeQ |-> 0 - 1]

Init ==
    /\ Starts(DOMContentLoaded(FreshPage(NoItem)))
    /\ lastCall = Called("DOMContentLoaded", 0)
    /\ probe = NoProbe
    /\ resume = NoItem
    /\ debounced = NotDebounced
    /\ trial = NoTrial
    /\ lastTarget = ""

\* The handler named has run to completion and left the world w.
\* The target of the last switchScreen call once the handler has run: a
\* page load forgets it, and a call made while a screen is displayed starts
\* a fade-out timer for its target.
Switched(handler, w) ==
    IF handler = "DOMContentLoaded" THEN ""
    ELSE IF Len(w.screenTimers) > Len(screenTimers)
    THEN w.screenTimers[Len(w.screenTimers)].to
    ELSE lastTarget

Step(handler, arg, w) ==
    /\ Becomes(w)
    /\ lastCall' = Called(handler, arg)
    /\ probe' = probe
    /\ debounced' = debounced
    /\ trial' = trial
    /\ lastTarget' = Switched(handler, w)

\* A step that neither saves the marks of a selection nor edits them.
Runs(handler, arg, w) ==
    /\ Step(handler, arg, w)
    /\ resume' = resume

\* The dropdowns of w hold a selection that has a subject list.
CanProceed(w) ==
    /\ w.batchSelect # "" /\ w.branchSelect # ""
    /\ ~isNaN(parseInt(w.semesterSelect)) /\ parseInt(w.semesterSelect).v # 0
    /\ ~getSubjects(w.branchSelect, parseInt(w.semesterSelect).v,
                    w.batchSelect).null

\* The saved item is of the selection in the dropdowns of w.
SavedFor(item, w) ==
    /\ item.present
    /\ item.batch = w.batchSelect /\ item.branch = w.branchSelect
    /\ ~isNaN(parseInt(w.semesterSelect))
    /\ item.semester = parseInt(w.semesterSelect).v

Shown(screenId) == display[screenId] # "none"

\* The user picks an option of a dropdown of the selection screen.
SelectBatch ==
    /\ Shown("selectionScreen")
    /\ \E v \in Batches \ {batchSelect} :
          Runs("change", 0,
               StaticInputEvent([World EXCEPT !.batchSelect = v]))

SelectBranch ==
    /\ Shown("selectionScreen")
    /\ \E v \in Branches \ {branchSelect} :
          Runs("change", 0,
               StaticInputEvent([World EXCEPT !.branchSelect = v]))

SelectSemester ==
    /\ Shown("selectionScreen")
    /\ \E v \in Semesters \ {semesterSelect} :
          Runs("change", 0,
               StaticInputEvent([World EXCEPT !.semesterSelect = v]))

\* The button of the selection screen that opens the calculator.
ClickProceed ==
    /\ Shown("selectionScreen")
    /\ Len(screenTimers) < MaxScreenTimers
    /\ debouncers <= MaxSessions
    /\ Step("proceedToCalculator", 0, proceedToCalculator(World))
    /\ resume' = IF CanProceed(World) /\ ~SavedFor(resume, World)
                 THEN proceedToCalculator(World).localStorage
                 ELSE resume

\* The button of the selection screen that opens the CGPA form.
ClickCGPA ==
    /\ Shown("selectionScreen")
    /\ Len(screenTimers) < MaxScreenTimers
    /\ Runs("proceedToCGPACalculator", 0, proceedToCGPACalculator(World))

\* The user edits an input of a subject card: oninput runs the predictor,
\* the input listener the debounced saver.
TypeMark ==
    /\ Shown("calculatorScreen")
    /\ \E id \in DOMAIN inputs : \E v \in TypedMarks(id) \ {inputs[id]} :
          Step("updatePrediction", id[1],
               CardInputEvent(
                   updatePrediction([World EXCEPT !.inputs[id] = v], id[1])))
    /\ resume' = NoItem

\* The "Calculate Subject Pointer" button of a card.
ClickCalculateSubject ==
    /\ Shown("calculatorScreen")
    /\ \E id \in DOMAIN resultDiv : 
          Runs("calculateSubject", id, calculateSubject(World, id))

ClickCalculateSGPA ==
    /\ Shown("calculatorScreen")
    /\ Runs("calculateOverallSGPA", 0, calculateOverallSGPA(World))

ClickChangeSelection ==
    /\ Shown("calculatorScreen") \/ Shown("cgpaCalculatorScreen")
    /\ Len(screenTimers) < MaxScreenTimers
    /\ Runs("changeSelection", 0, changeSelection(World))

\* The user edits a row of the CGPA form.
TypeSGPA ==
    /\ Shown("cgpaCalculatorScreen")
    /\ \E sem \in 1..MaxSemRows : \E v \in TypedSGPA \ {sgpaInput[sem]} :
          Runs("input", sem,
               StaticInputEvent([World EXCEPT !.sgpaInput[sem] = v]))

TypeCredits ==
    /\ Shown("cgpaCalculatorScreen")
    /\ \E sem \in 1..MaxSemRows : \E v \in TypedCredits \ {creditsInput[sem]} :
          Runs("input", sem,
               StaticInputEvent([World EXCEPT !.creditsInput[sem] = v]))

ClickCalculateCGPA ==
    /\ Shown("cgpaCalculatorScreen")
    /\ Runs("calculateCGPA", 0, calculateCGPA(World))

\* The oldest fade-out timer of switchScreen fires: the screen it faded out
\* is hidden and its target shown.
ScreenTimerFires ==
    /\ screenTimers # << >>
    /\ Runs("switchScreen timer", 0, fadeOutDone(World))

\* The timer of a debounced saver fires: later() calls saveState.
DebounceTimerFires ==
    /\ \E i \in timeouts :
          Step("saveState", 0, saveState([World EXCEPT !.timeouts = @ \ {i}]))
    /\ resume' = IF state.selectedBatch # NoSelection
                 THEN saveState(World).localStorage
                 ELSE resume

\* The 5 s timer of showError hides the message.
ErrorTimerFires ==
    /\ selectionError.display = "block"
    /\ Runs("showError timer", 0,
            [World EXCEPT !.selectionError.display = "none"])

\* The "Print Result" button below the SGPA.
ClickPrintResult ==
    /\ Shown("calculatorScreen")
    /\ printContainer # "none"
    /\ Len(printTimers) < MaxPrintTimers
    /\ Runs("printResult", 0, printResult(World))

\* The "Print Result" button the CGPA output carries.
ClickPrintOverall ==
    /\ Shown("cgpaCalculatorScreen")
    /\ cgpaOutputSection.kind = "cgpa"
    /\ Len(printTimers) < MaxPrintTimers
    /\ Runs("printOverallResult", 0, printOverallResult(World))

\* The oldest 500 ms timer of the print functions fires.
PrintTimerFires ==
    /\ printTimers # << >>
    /\ Runs("print timer", 0, printTimerDone(World))

\* The page is loaded again: scripts and timers are gone, the saved item
\* stays.
Reload ==
    Runs("DOMContentLoaded", 0, DOMContentLoaded(FreshPage(localStorage)))

Next ==
    \/ SelectBatch \/ SelectBranch \/ SelectSemester
    \/ ClickProceed \/ ClickCGPA \/ ClickChangeSelection
    \/ TypeMark \/ ClickCalculateSubject \/ ClickCalculateSGPA
    \/ TypeSGPA \/ TypeCredits \/ ClickCalculateCGPA
    \/ ScreenTimerFires \/ DebounceTimerFires \/ ErrorTimerFires
    \/ ClickPrintResult \/ ClickPrintOverall \/ PrintTimerFires
    \/ Reload

Spec == Init /\ [][Next]_vars

\* One calculator session.  It starts where the first visit is once the
\* user has picked batch 2025-2029, branch comp and semester 1, pressed the
\* proceed button and seen the calculator screen fade in; from there on the
\* user edits marks and presses the two calculate buttons.
FirstSession ==
    LET w0 == DOMContentLoaded(FreshPage(NoItem))
        w1 == StaticInputEvent([w0 EXCEPT !.batchSelect = "2025-2029"])
        w2 == StaticInputEvent([w1 EXCEPT !.branchSelect = "comp"])
        w3 == StaticInputEvent([w2 EXCEPT !.semesterSelect = << "1" >>])
    IN  fadeOutDone(proceedToCalculator(w3))

InitCalc ==
    /\ Starts(FirstSession)
    /\ lastCall = Called("switchScreen timer", 0)
    /\ probe = NoProbe
    /\ resume = FirstSession.localStorage
    /\ debounced = NotDebounced
    /\ trial = NoTrial
    /\ lastTarget = "calculatorScreen"

NextCalc == TypeMark \/ ClickCalculateSubject \/ ClickCalculateSGPA

SpecCalc == InitCalc /\ [][NextCalc]_vars

\* The CGPA form.
NextCGPA ==
    \/ ClickCGPA \/ ClickChangeSelection
    \/ TypeSGPA \/ TypeCredits \/ ClickCalculateCGPA
    \/ ScreenTimerFires

SpecCGPA == Init /\ [][NextCGPA]_vars

\* The selection screen: the user picks batch, branch and semester, presses
\* the proceed button, and comes back from the calculator.
NextSelect ==
    \/ SelectBatch \/ SelectBranch \/ SelectSemester
    \/ ClickProceed \/ ClickChangeSelection
    \/ ScreenTimerFires \/ ErrorTimerFires

SpecSelect == Init /\ [][NextSelect]_vars

\* A session that is left and resumed.  It starts in the first calculator
\* session; the user fills in the marks 15, 65 and 12, calculates, prints,
\* goes back, fills in the first row of the CGPA form, reloads the page and
\* proceeds with the selection the page load has put into the dropdowns.
SessionMarks(id) ==
    IF id[2] = "highest" THEN << >>
    ELSE IF id[2] = "ese" THEN << "6", "5" >>
    ELSE IF id[1] = 1 THEN << "1", "5" >>
    ELSE << "1", "2" >>

\* The input a comes before the input b on the page.
Above(a, b) == a[1] < b[1] \/ (a[1] = b[1] /\ a[2] = "ise" /\ b[2] = "ese")

\* The user fills in the first blank mark field from the top.
FillMark ==
    /\ Shown("calculatorScreen")
    /\ \E id \in DOMAIN inputs :
          /\ inputs[id] = << >> /\ SessionMarks(id) # << >>
          /\ \A a \in DOMAIN inputs :
                (SessionMarks(a) # << >> /\ Above(a, id)) => inputs[a] # << >>
          /\ Step("updatePrediction", id[1],
                  CardInputEvent(
                      updatePrediction(
                          [World EXCEPT !.inputs[id] = SessionMarks(id)],
                          id[1])))
    /\ resume' = NoItem

PickBatch ==
    /\ Shown("selectionScreen") /\ batchSelect = ""
    /\ Runs("change", 0,
            StaticInputEvent([World EXCEPT !.batchSelect = "2025-2029"]))

PickBranch ==
    /\ Shown("selectionScreen") /\ branchSelect = ""
    /\ Runs("change", 0,
            StaticInputEvent([World EXCEPT !.branchSelect = "comp"]))

PickSemester ==
    /\ Shown("selectionScreen") /\ semesterSelect = << >>
    /\ Runs("change", 0,
            StaticInputEvent([World EXCEPT !.semesterSelect = << "1" >>]))

\* The user fills in the first row of the CGPA form: SGPA 9, 20 credits.
FillRow ==
    /\ Shown("cgpaCalculatorScreen")
    /\ \/ /\ sgpaInput[1] = << >>
          /\ Runs("input", 1,
                  StaticInputEvent([World EXCEPT !.sgpaInput[1] = << "9" >>]))
       \/ /\ creditsInput[1] = << >>
          /\ Runs("input", 1,
                  StaticInputEvent(
                      [World EXCEPT !.creditsInput[1] = << "2", "0" >>]))

\* Subject ids no catalog list of the model holds.
OtherIds == {0, 9}

\* window.calculateSubject(id) called for an id that is no current subject.
CalculateOtherSubject ==
    /\ OtherIds \cap {state.currentSubjects[i].id :
                          i \in 1..Len(state.currentSubjects)} = {}
    /\ \E id \in OtherIds :
          Runs("calculateSubject", id, calculateSubject(World, id))

\* The navigation buttons pressed once the previous screen switch is over.
GoBack == screenTimers = << >> /\ ClickChangeSelection

Proceed == screenTimers = << >> /\ ClickProceed

OpenCGPA == screenTimers = << >> /\ ClickCGPA

\* The proceed button pressed on a freshly loaded page.
Resume == debouncers = 1 /\ Proceed

NextFrame ==
    \/ FillMark \/ ClickCalculateSubject \/ CalculateOtherSubject
    \/ ClickCalculateSGPA \/ ClickPrintResult
    \/ GoBack \/ OpenCGPA \/ FillRow \/ ClickCalculateCGPA
    \/ ClickPrintOverall
    \/ ScreenTimerFires \/ DebounceTimerFires \/ PrintTimerFires
    \/ Reload \/ Resume

SpecFrame == InitCalc /\ [][NextFrame]_vars

\* Marks that are saved and come back.  From the first calculator session
\* the user fills in marks, goes back, reloads, picks batch 2025-2029,
\* branch comp and semester 1 where a dropdown is blank, fills in the CGPA
\* form and proceeds; the debounced savers fire in between.
NextResume ==
    \/ FillMark \/ DebounceTimerFires \/ ScreenTimerFires
    \/ GoBack \/ Reload
    \/ PickBatch \/ PickBranch \/ PickSemester
    \/ OpenCGPA \/ FillRow
    \/ Proceed

SpecResume == InitCalc /\ [][NextResume]_vars

\* The SGPA report.  On the calculator screen the user fills in the marks,
\* presses Calculate on a card and Calculate SGPA, edits marks once an SGPA
\* is shown, and presses Print Result; the timers of the print run out.
\* Marks are edited on the card of subject 1, until the first report is
\* printed.
EditMark ==
    /\ printContainer = "block"
    /\ printArea.sgpa.rows = << >>
    /\ TypeMark
    /\ lastCall'.arg = 1

NextPrint ==
    \/ FillMark \/ ClickCalculateSubject \/ ClickCalculateSGPA
    \/ EditMark \/ ClickPrintResult \/ PrintTimerFires

SpecPrint == InitCalc /\ [][NextPrint]_vars

\* The three screens.  From a freshly loaded page the user picks batch
\* 2025-2029, branch comp and semester 1, presses Proceed, CGPA Calculator
\* and Change Selection, also while a fade-out timer of switchScreen is
\* pending; the timers fire, oldest first.
NextScreens ==
    \/ PickBatch \/ PickBranch \/ PickSemester
    \/ ClickProceed \/ ClickCGPA \/ ClickChangeSelection
    \/ ScreenTimerFires

SpecScreens == Init /\ [][NextScreens]_vars

(***************************************************************************)
(* Predictor and evaluator on their own.  A subject of one of two shapes,  *)
(* {ise: max 20, ese: max 80} and {ise: max 50, ese: max 50}, both with    *)
(* defaultHighest 100, an ise mark and a highest override are drawn; the   *)
(* predictor runs, then a final-exam score is typed and the evaluator      *)
(* runs.                                                                   *)
(***************************************************************************)
ExamSubjects ==
    {TheorySubject(1, 4),
     [TheorySubject(1, 4) EXCEPT !.fields = << [name |-> "ise", max |-> 50],
                                               [name |-> "ese", max |-> 50] >>]}

\* ise marks: blank, 0.4, 15, 16.8, 20 and 35.
TrialMarks ==
    {<< >>, << "0", ".", "4" >>, << "1", "5" >>, << "1", "6", ".", "8" >>,
     << "2", "0" >>, << "3", "5" >>}

\* Overrides of the highest total: blank, 3, 96, 100 and 120.
TrialHighest ==
    {<< >>, << "3" >>, << "9", "6" >>, << "1", "0", "0" >>,
     << "1", "2", "0" >>}

InitTrial ==
    /\ Starts(DOMContentLoaded(FreshPage(NoItem)))
    /\ lastCall = Called("DOMContentLoaded", 0)
    /\ probe = NoProbe
    /\ resume = NoItem
    /\ debounced = NotDebounced
    /\ trial \in {Trial(subject, [ise |-> ise, ese |-> << >>,
                                  highest |-> highest]) :
                      subject \in ExamSubjects, ise \in TrialMarks,
                      highest \in TrialHighest}
    /\ lastTarget = ""

pageAndDebounced ==
    << state, batchSelect, branchSelect, semesterSelect, inputs, resultDiv,
       predictionDiv, outputSection, sgpaInput, creditsInput,
       cgpaOutputSection, selectionError, display, screenTimers,
       localStorage, debouncers, timeouts, printContainer, printArea,
       printTimers, lastCall, probe, resume, debounced, lastTarget >>

\* oninput of the last field typed: updatePrediction.
PredictTrial ==
    /\ ~trial.predicted
    /\ trial' = [trial EXCEPT
                    !.predicted = TRUE,
                    !.prediction = updatePrediction64(trial.subject,
                                                      trial.typed)]
    /\ UNCHANGED pageAndDebounced

\* A whole final-exam score within its maximum is typed and the calculate
\* button of the card pressed.
CalculateTrial ==
    /\ trial.predicted /\ trial.score = 0 - 1
    /\ \E score \in 0..trial.subject.fields[FindEse(trial.subject)].max :
          LET typed == [trial.typed EXCEPT !.ese = MarkText(score)]
          IN  trial' = [trial EXCEPT
                          !.typed = typed, !.score = score,
                          !.gradePoint = calculateSubject64(trial.subject,
                                                            typed)]
    /\ UNCHANGED pageAndDebounced

NextTrial == PredictTrial \/ CalculateTrial

SpecTrial == InitTrial /\ [][NextTrial]_vars

(***************************************************************************)
(* One debounced function on its own: debounce(func, wait) is called once, *)
(* then the function it returned is called with an "input" or a "change"   *)
(* event at any tick, and the browser runs a timer at its due tick or      *)
(* later.                                                                  *)
(***************************************************************************)
Events == {"input", "change"}

page ==
    << state, batchSelect, branchSelect, semesterSelect, inputs, resultDiv,
       predictionDiv, outputSection, sgpaInput, creditsInput,
       cgpaOutputSection, selectionError, display, screenTimers,
       localStorage, debouncers, timeouts, printContainer, printArea,
       printTimers, lastCall, probe, resume, trial, lastTarget >>

InitDebounce ==
    /\ Starts(DOMContentLoaded(FreshPage(NoItem)))
    /\ lastCall = Called("DOMContentLoaded", 0)
    /\ probe = NoProbe
    /\ resume = NoItem
    /\ debounced \in {debounce(wait) : wait \in 0..MaxWait}
    /\ trial = NoTrial
    /\ lastTarget = ""

\* An event listener calls the debounced function; the call is made while
\* its timer can still come due before the clock stops.
CallDebounced ==
    /\ Len(debounced.calls) < MaxCalls
    /\ debounced.now + debounced.wait <= MaxTime
    /\ \E event \in Events :
          debounced' = executedFunction(debounced, event)
    /\ UNCHANGED page

\* The browser runs a timer that is due.
TimerDue ==
    /\ \E t \in debounced.timers :
          /\ t.due <= debounced.now
          /\ debounced' = later(debounced, t)
    /\ UNCHANGED page

Tick ==
    /\ debounced.now < MaxTime
    /\ debounced' = [debounced EXCEPT !.now = @ + 1]
    /\ UNCHANGED page

NextDebounce == CallDebounced \/ TimerDue \/ Tick

\* Time passes, and the event loop runs a timer that stays due.
SpecDebounce ==
    /\ InitDebounce /\ [][NextDebounce]_vars
    /\ WF_vars(Tick) /\ WF_vars(TimerDue)

(***************************************************************************)
(* The grade scale on its own: two percentages n / d are drawn, then       *)
(* getGradePoint is applied to both.                                       *)
(***************************************************************************)
\* Whole percentages from -10 to 110, and the ones a thousandth below and
\* above each whole percentage from 39 to 81.
Percentages ==
    {Div(n, 1) : n \in (0 - 10)..110}
        \cup {Div(n * 1000 + e, 1000) : n \in 39..81, e \in {0 - 1, 1}}

InitGrade ==
    /\ Starts(DOMContentLoaded(FreshPage(NoItem)))
    /\ lastCall = Called("DOMContentLoaded", 0)
    /\ probe \in [p : Percentages, q : Percentages,
                  gradeP : {0 - 1}, gradeQ : {0 - 1}]
    /\ resume = NoItem
    /\ debounced = NotDebounced
    /\ trial = NoTrial
    /\ lastTarget = ""

ApplyGradeScale ==
    /\ probe.gradeP = 0 - 1
    /\ probe' = [probe EXCEPT !.gradeP = getGradePoint(probe.p),
                              !.gradeQ = getGradePoint(probe.q)]
    /\ UNCHANGED << state, batchSelect, branchSelect, semesterSelect, inputs,
                    resultDiv, predictionDiv, outputSection, sgpaInput,
                    creditsInput, cgpaOutputSection, selectionError, display,
                    screenTimers, localStorage, debouncers, timeouts,
                    printContainer, printArea, printTimers, lastCall,
                    resume, debounced, trial, lastTarget >>

NextGrade == ApplyGradeScale

SpecGrade == InitGrade /\ [][NextGrade]_vars

(***************************************************************************)
(* Vocabulary of the properties: what is entered on the page, read         *)
(* independently of the handlers.                                          *)
(***************************************************************************)
RECURSIVE SumOf(_, _)
\* The sum of f[x] over x in S.
SumOf(f, S) ==
    IF S = {} THEN 0
    ELSE LET x == CHOOSE y \in S : TRUE
         IN  f[x] + SumOf(f, S \ {x})

CurrentIds ==
    {state.currentSubjects[i].id : i \in 1..Len(state.currentSubjects)}

SubjectOf(id) ==
    state.currentSubjects[CHOOSE i \in 1..Len(state.currentSubjects) :
                              state.currentSubjects[i].id = id]

Entered(id, name) == parseFloat(inputs[InputId(id, name)])

\* The field holds a number between 0 and its maximum.
InRange(id, field) ==
    /\ inputs[InputId(id, field.name)] # << >>
    /\ ~isNaN(Entered(id, field.name))
    /\ 0 <= Entered(id, field.name).v
    /\ Entered(id, field.name).v <= field.max

AllInRange(id) ==
    \A j \in 1..Len(SubjectOf(id).fields) : InRange(id, SubjectOf(id).fields[j])

TotalMarks(id) ==
    LET fields == SubjectOf(id).fields
    IN  SumOf([j \in 1..Len(fields) |-> Entered(id, fields[j].name).v],
              1..Len(fields))

\* The denominator of section 4.2, step 3: the override when it is present,
\* numeric and nonzero, else the default.
EnteredHighest(id) ==
    IF ~isNaN(Entered(id, "highest")) /\ Entered(id, "highest").v # 0
    THEN Entered(id, "highest").v
    ELSE SubjectOf(id).defaultHighest

\* The denominator of the data model: the override when 0 < override <=
\* defaultHighest, else the default.
ValidHighest(id) ==
    IF /\ ~isNaN(Entered(id, "highest"))
       /\ 0 < Entered(id, "highest").v
       /\ Entered(id, "highest").v <= SubjectOf(id).defaultHighest
    THEN Entered(id, "highest").v
    ELSE SubjectOf(id).defaultHighest

\* lo <= q < hi, q >= lo and q < hi for a quotient q with a nonzero
\* denominator.
Numerator(q) == IF q.den < 0 THEN 0 - q.num ELSE q.num

Denominator(q) == IF q.den < 0 THEN 0 - q.den ELSE q.den

AtLeast(q, lo) == lo * Denominator(q) <= Numerator(q)

Below(q, hi) == Numerator(q) < hi * Denominator(q)

\* g is the grade point of the threshold table for the percentage q.
TableGrade(q, g) ==
    /\ AtLeast(q, 80) => g = 10
    /\ AtLeast(q, 70) /\ Below(q, 80) => g = 9
    /\ AtLeast(q, 60) /\ Below(q, 70) => g = 8
    /\ AtLeast(q, 55) /\ Below(q, 60) => g = 7
    /\ AtLeast(q, 50) /\ Below(q, 55) => g = 6
    /\ AtLeast(q, 45) /\ Below(q, 50) => g = 5
    /\ AtLeast(q, 40) /\ Below(q, 45) => g = 4
    /\ Below(q, 40) => g = 0

\* calculateSubject(id) has just run: called from its button, or for every
\* subject by an SGPA calculation that got past its validity scan.
Evaluated(id) ==
    \/ lastCall = Called("calculateSubject", id)
    \/ lastCall = Called("calculateOverallSGPA", 0) /\ outputSection.kind = "sgpa"

Recorded(id) ==
    IF id \in DOMAIN state.gradePoints THEN state.gradePoints[id] ELSE 0

\* Rows of the CGPA form whose sgpa and credits are both numeric and > 0.
ValidRows ==
    {s \in 1..NumSemesters :
        /\ ~isNaN(parseFloat(sgpaInput[s]))
        /\ ~isNaN(parseFloat(creditsInput[s]))
        /\ parseFloat(sgpaInput[s]).v > 0
        /\ parseFloat(creditsInput[s]).v > 0}

\* Rows of the CGPA form whose sgpa is above 10.
RowsAboveTen ==
    {s \in 1..NumSemesters :
        ~isNaN(parseFloat(sgpaInput[s])) /\ parseFloat(sgpaInput[s]).v > 10}

(***************************************************************************)
(* Properties                                                              *)
(***************************************************************************)
\* C1: getGradePoint(p) is the value of the threshold table with inclusive
\* lower bounds for every percentage p, below 0 and above 100 included; the
\* result is one of 0, 4, 5, 6, 7, 8, 9, 10 and does not decrease when p
\* grows.
GradeScaleIsTheTable ==
    probe.gradeP # 0 - 1 =>
        /\ TableGrade(probe.p, probe.gradeP)
        /\ TableGrade(probe.q, probe.gradeQ)
        /\ probe.gradeP \in {0, 4, 5, 6, 7, 8, 9, 10}
        /\ (probe.p.num * probe.q.den <= probe.q.num * probe.p.den
               => probe.gradeP <= probe.gradeQ)

\* 79.999 % gives 9 and 80 % gives 10.
GradeScaleAtEighty ==
    /\ probe.p = Div(79999, 1000) /\ probe.gradeP = 9
    /\ probe.q = Div(80, 1) /\ probe.gradeQ = 10

\* C2: with every field of a current subject between 0 and its maximum and
\* a resolved highest not above defaultHighest, calculateSubject(id) records
\* the grade point of the table for totalMarks / highest * 100, totalMarks
\* being the sum of the field values.
SubjectGradeRecorded ==
    \A id \in CurrentIds :
        (/\ Evaluated(id)
         /\ AllInRange(id)
         /\ EnteredHighest(id) <= SubjectOf(id).defaultHighest)
        => /\ id \in DOMAIN state.gradePoints
           /\ TableGrade(Div(TotalMarks(id) * 100, EnteredHighest(id)),
                         state.gradePoints[id])
           /\ resultDiv[id].kind = "Result"
           /\ resultDiv[id].total = TotalMarks(id)
           /\ resultDiv[id].gradePoint = state.gradePoints[id]

\* Marks 15 and 65 of 100, no override: total 80, grade point 10.
SubjectGradeTen ==
    /\ lastCall = Called("calculateSubject", 1)
    /\ inputs[InputId(1, "ise")] = << "1", "5" >>
    /\ inputs[InputId(1, "ese")] = << "6", "5" >>
    /\ inputs[InputId(1, "highest")] = << >>
    /\ resultDiv[1].kind = "Result"
    /\ resultDiv[1].total = 80
    /\ state.gradePoints[1] = 10

\* C3: with one field empty, non-numeric, negative or above its maximum,
\* calculateSubject(id) shows the fill-all-fields message, no total, and
\* records grade point 0, whatever the other fields and the override hold.
InvalidFieldRecordsZero ==
    \A id \in CurrentIds :
        (lastCall = Called("calculateSubject", id) /\ ~AllInRange(id))
        => /\ resultDiv[id] = FillAllFields
           /\ id \in DOMAIN state.gradePoints
           /\ state.gradePoints[id] = 0

\* Only the second field is out of range (81 of 80), a valid override is
\* entered: grade point 0.
OverMaxRecordsZero ==
    /\ lastCall = Called("calculateSubject", 1)
    /\ inputs[InputId(1, "ise")] = << "1", "5" >>
    /\ inputs[InputId(1, "ese")] = << "8", "1" >>
    /\ inputs[InputId(1, "highest")] = << "3", "3" >>
    /\ resultDiv[1].kind = "FillAllFields"
    /\ state.gradePoints[1] = 0

\* C4: with all fields valid and an override above defaultHighest,
\* calculateSubject(id) shows the message naming defaultHighest, computes no
\* grade from the override and records grade point 0.
HighestAboveDefaultRejected ==
    \A id \in CurrentIds :
        (/\ Evaluated(id)
         /\ AllInRange(id)
         /\ ~isNaN(Entered(id, "highest"))
         /\ Entered(id, "highest").v > SubjectOf(id).defaultHighest)
        => /\ resultDiv[id] = HighestExceeds(SubjectOf(id).defaultHighest)
           /\ id \in DOMAIN state.gradePoints
           /\ state.gradePoints[id] = 0

\* Marks 15 and 65, override 120 of 100: rejected, naming 100.
Override120Rejected ==
    /\ lastCall = Called("calculateSubject", 1)
    /\ inputs[InputId(1, "ise")] = << "1", "5" >>
    /\ inputs[InputId(1, "ese")] = << "6", "5" >>
    /\ inputs[InputId(1, "highest")] = << "1", "2", "0" >>
    /\ resultDiv[1].kind = "HighestExceeds"
    /\ resultDiv[1].defaultHighest = 100
    /\ state.gradePoints[1] = 0

\* C5: whenever calculateSubject produces a result, its denominator is the
\* override only when 0 < override <= defaultHighest and defaultHighest
\* otherwise, so it is strictly positive.
DenominatorIsValidHighest ==
    \A id \in CurrentIds :
        (Evaluated(id) /\ resultDiv[id].kind = "Result")
        => /\ resultDiv[id].highest = ValidHighest(id)
           /\ resultDiv[id].highest > 0

\* C6: an SGPA displayed for a non-empty subject list is the sum of recorded
\* grade point times credits over the sum of credits of the current
\* subjects, a subject without a recorded grade point counting as 0.
SGPAIsWeightedMean ==
    (/\ lastCall = Called("calculateOverallSGPA", 0)
     /\ outputSection.kind = "sgpa"
     /\ CurrentIds # {})
    => /\ outputSection.totalCreditPoints =
              SumOf([id \in CurrentIds |-> Recorded(id) * SubjectOf(id).credits],
                    CurrentIds)
       /\ outputSection.totalCredits =
              SumOf([id \in CurrentIds |-> SubjectOf(id).credits], CurrentIds)
       /\ outputSection.totalCredits > 0

\* Grade points 10 and 8 with credits 4 and 3: SGPA 64 / 7.
SGPASixtyFourSevenths ==
    /\ lastCall = Called("calculateOverallSGPA", 0)
    /\ outputSection =
           [kind |-> "sgpa", totalCreditPoints |-> 64, totalCredits |-> 7]
    /\ state.gradePoints[1] = 10
    /\ state.gradePoints[2] = 8

\* C7: a displayed CGPA is the sum of sgpa times credits over the sum of
\* credits of exactly the rows 1..8 whose sgpa and credits are both numeric
\* and strictly positive; every other row is left out of both sums.
CGPAOverValidRows ==
    (lastCall = Called("calculateCGPA", 0) /\ cgpaOutputSection.kind = "cgpa")
    => /\ ValidRows # {}
       /\ cgpaOutputSection.totalCreditPoints =
              SumOf([s \in ValidRows |-> parseFloat(sgpaInput[s]).v
                                           * parseFloat(creditsInput[s]).v],
                    ValidRows)
       /\ cgpaOutputSection.totalCredits =
              SumOf([s \in ValidRows |-> parseFloat(creditsInput[s]).v],
                    ValidRows)
       /\ cgpaOutputSection.semestersEntered = Cardinality(ValidRows)

\* Row 1 holds sgpa 9 and 20 credits, row 2 a negative sgpa and 20 credits:
\* the CGPA is 180 / 20.
CGPALeavesRowOut ==
    /\ lastCall = Called("calculateCGPA", 0)
    /\ sgpaInput[1] = << "9" >> /\ creditsInput[1] = << "2", "0" >>
    /\ sgpaInput[2] = << "-", "1" >> /\ creditsInput[2] = << "2", "0" >>
    /\ cgpaOutputSection.kind = "cgpa"
    /\ cgpaOutputSection.totalCreditPoints = 180
    /\ cgpaOutputSection.totalCredits = 20

\* C8: a row with sgpa > 10 makes calculateCGPA fail with the out-of-range
\* message naming such a row and display no CGPA, whatever the credits of
\* that row and however many other rows are valid.
SGPAAboveTenRejected ==
    (lastCall = Called("calculateCGPA", 0) /\ RowsAboveTen # {})
    => /\ cgpaOutputSection.kind = "SGPAOutOfRange"
       /\ cgpaOutputSection.sem \in RowsAboveTen

\* C9: with no row holding both sgpa > 0 and credits > 0, calculateCGPA
\* shows the no-valid-semesters message and no CGPA.
NoValidRowsRejected ==
    (lastCall = Called("calculateCGPA", 0) /\ ValidRows = {})
    => cgpaOutputSection = NoValidSemesters

\* Row 1 holds a negative sgpa, row 2 zero credits: no valid semester.
NoValidRowsEntered ==
    /\ lastCall = Called("calculateCGPA", 0)
    /\ sgpaInput[1] = << "-", "1" >> /\ creditsInput[1] = << "2", "0" >>
    /\ sgpaInput[2] = << "9" >> /\ creditsInput[2] = << "0" >>
    /\ cgpaOutputSection.kind = "NoValidSemesters"

\* n = ceil(tenths / 10).
IsCeilOfTenths(n, tenths) == 10 * (n - 1) < tenths /\ tenths <= 10 * n

\* The verdict v is the one of the needed score for a final exam out of max.
IsVerdictOf(v, need, max) ==
    /\ v = "secured" <=> need <= 0
    /\ v = "need" <=> (0 < need /\ need <= max)
    /\ v = "notPossible" <=> need > max

\* C10: a prediction of updatePrediction rests on neededFor10 =
\* ceil(0.8 * highest - currentTotal) and neededFor9 = ceil(0.7 * highest -
\* currentTotal); each target is reported as already secured iff needed <=
\* 0, as the needed score iff 0 < needed <= the maximum of the final-exam
\* field, as not possible iff needed > that maximum; both verdicts are
\* output together.
PredictionVerdicts ==
    \A id \in DOMAIN predictionDiv :
        (lastCall = Called("updatePrediction", id)
            /\ predictionDiv[id].kind = "prediction")
        => LET p == predictionDiv[id]
           IN  /\ IsCeilOfTenths(p.needFor10, 8 * p.highest - 10 * p.currentTotal)
               /\ IsCeilOfTenths(p.needFor9, 7 * p.highest - 10 * p.currentTotal)
               /\ p.eseMax = SubjectOf(id).fields[FindEse(SubjectOf(id))].max
               /\ IsVerdictOf(p.for10, p.needFor10, p.eseMax)
               /\ IsVerdictOf(p.for9, p.needFor9, p.eseMax)

\* 15 marks entered of 100, override 33: 0.8 * 33 - 15 = 11.4, so 12 are
\* needed for 10 and, 0.7 * 33 - 15 being 8.1, 9 for 9.
PredictionRoundsUp ==
    /\ lastCall = Called("updatePrediction", 1)
    /\ inputs[InputId(1, "ise")] = << "1", "5" >>
    /\ inputs[InputId(1, "highest")] = << "3", "3" >>
    /\ predictionDiv[1].kind = "prediction"
    /\ predictionDiv[1].needFor10 = 12 /\ predictionDiv[1].for10 = "need"
    /\ predictionDiv[1].needFor9 = 9 /\ predictionDiv[1].for9 = "need"

(***************************************************************************)
(* The predictor                                                           *)
(***************************************************************************)
\* The fields of the subject other than the final exam.
NonFinal(id) ==
    {j \in 1..Len(SubjectOf(id).fields) : SubjectOf(id).fields[j].name # "ese"}

HasEse(id) == FindEse(SubjectOf(id)) # 0

EseEntered(id) == inputs[InputId(id, "ese")] # << >>

NoNonFinalEntered(id) ==
    \A j \in NonFinal(id) :
        inputs[InputId(id, SubjectOf(id).fields[j].name)] = << >>

\* No prediction text is on the page for the subject.
NoPredictionText(id) ==
    id \in DOMAIN predictionDiv => predictionDiv[id].kind = "empty"

\* C11: updatePrediction leaves no prediction text for a subject without a
\* final-exam field, for a subject whose final-exam field holds a value and
\* for a subject none of whose other fields holds a value; in the last two
\* cases a prediction shown before is cleared.
PredictionEmptyCases ==
    \A id \in CurrentIds :
        lastCall = Called("updatePrediction", id)
        => /\ ~HasEse(id) => NoPredictionText(id)
           /\ (HasEse(id) /\ EseEntered(id))
                  => predictionDiv[id] = NoPrediction
           /\ (HasEse(id) /\ NoNonFinalEntered(id))
                  => predictionDiv[id] = NoPrediction

\* The final-exam mark 65 has just been typed after the mark 15, for which
\* a prediction had been shown.
PredictionClearedByEse ==
    /\ lastCall = Called("updatePrediction", 1)
    /\ inputs[InputId(1, "ise")] = << "1", "5" >>
    /\ inputs[InputId(1, "ese")] = << "6", "5" >>
    /\ predictionDiv[1] = NoPrediction

\* The marks of the non-final fields that are within 0 .. max, added up.
ValidNonFinalTotal(id) ==
    SumOf([j \in NonFinal(id) |->
              IF InRange(id, SubjectOf(id).fields[j])
              THEN Entered(id, SubjectOf(id).fields[j].name).v ELSE 0],
          NonFinal(id))

\* C12: in a prediction currentTotal is the sum of the valid non-final
\* values, a non-numeric, negative or over-maximum value counting 0, and
\* such a value does not keep the prediction from being made.
PredictionTotalIsValidSum ==
    \A id \in CurrentIds :
        (lastCall = Called("updatePrediction", id) /\ HasEse(id)
            /\ ~EseEntered(id) /\ ~NoNonFinalEntered(id))
        => /\ predictionDiv[id].kind = "prediction"
           /\ predictionDiv[id].currentTotal = ValidNonFinalTotal(id)

\* The override as typed, NaN when it is blank or not a number.
TypedHighest(id) == parseFloat(inputs[InputId(id, "highest")])

\* C13: the highest of a prediction is the override or defaultHighest, is
\* defaultHighest when the override is blank, non-numeric, zero or above
\* defaultHighest, and so never exceeds defaultHighest.
PredictionHighestWithinDefault ==
    \A id \in CurrentIds :
        (lastCall = Called("updatePrediction", id) /\ HasEse(id)
            /\ predictionDiv[id].kind = "prediction")
        => LET p == predictionDiv[id]
               d == SubjectOf(id).defaultHighest
               o == TypedHighest(id)
           IN  /\ p.highest <= d
               /\ (isNaN(o) \/ o.v = 0 \/ o.v > d) => p.highest = d
               /\ ~isNaN(o) => p.highest \in {o.v, d}

(***************************************************************************)
(* The selection                                                           *)
(***************************************************************************)
DataUnavailable ==
    [text |-> "Data for the selected combination is not available yet",
     display |-> "block"]

\* The dropdowns hold a batch, a branch and a semester for which the
\* catalog has no subject list.
SelectionWithoutSubjects ==
    /\ batchSelect # "" /\ branchSelect # ""
    /\ ~isNaN(parseInt(semesterSelect)) /\ parseInt(semesterSelect).v # 0
    /\ getSubjects(branchSelect, parseInt(semesterSelect).v, batchSelect).null

\* C14: proceedToCalculator on a selection without a subject list reports
\* that the data is not available and leaves selectedBatch, selectedBranch,
\* selectedSemester, currentSubjects and gradePoints as they were, starts no
\* screen switch and writes nothing to localStorage.
DataUnavailableKeepsState ==
    [][(SelectionWithoutSubjects
            /\ lastCall' = Called("proceedToCalculator", 0))
        => /\ selectionError' = DataUnavailable
           /\ state' = state
           /\ screenTimers' = screenTimers /\ display' = display
           /\ localStorage' = localStorage]_vars

\* Semester 1 was opened and, before the calculator screen has faded in,
\* semester 5 is asked for: the state still holds semester 1.
DataUnavailableAfterSemester1 ==
    /\ lastCall = Called("proceedToCalculator", 0)
    /\ SelectionWithoutSubjects
    /\ selectionError = DataUnavailable
    /\ state.selectedSemester = 1
    /\ Len(state.currentSubjects) = 2

(***************************************************************************)
(* The SGPA and the marks on the page                                      *)
(***************************************************************************)
\* The override of the subject is a number above its defaultHighest.
OverrideAboveDefault(id) ==
    /\ ~isNaN(Entered(id, "highest"))
    /\ Entered(id, "highest").v > SubjectOf(id).defaultHighest

\* g is the grade point calculateSubject(id) yields for the values the
\* inputs of the subject hold now.
GradeOfPage(id, g) ==
    IF ~AllInRange(id) \/ OverrideAboveDefault(id)
    THEN g = 0
    ELSE TableGrade(Div(TotalMarks(id) * 100, EnteredHighest(id)), g)

\* C15: the grade point a displayed SGPA uses for each subject is the one
\* calculateSubject yields for the values in the fields at the moment of the
\* aggregation, whatever edits and subject calculations came before; a
\* grade point recorded for earlier marks is not reused.
SGPAUsesFreshGrades ==
    (lastCall = Called("calculateOverallSGPA", 0) /\ outputSection.kind = "sgpa")
    => /\ \A id \in CurrentIds :
              /\ id \in DOMAIN state.gradePoints
              /\ GradeOfPage(id, state.gradePoints[id])
       /\ \E g \in [CurrentIds -> {0, 4, 5, 6, 7, 8, 9, 10}] :
              /\ \A id \in CurrentIds : GradeOfPage(id, g[id])
              /\ outputSection.totalCreditPoints =
                     SumOf([id \in CurrentIds |-> g[id] * SubjectOf(id).credits],
                           CurrentIds)

\* An SGPA over marks 15 + 65 with the override -5 (grade point 0) and the
\* mark 12 of 20 (grade point 8): 24 credit points.
SGPAOfPresentMarks ==
    /\ lastCall = Called("calculateOverallSGPA", 0)
    /\ outputSection =
           [kind |-> "sgpa", totalCreditPoints |-> 24, totalCredits |-> 7]
    /\ inputs[InputId(1, "highest")] = << "-", "5" >>
    /\ inputs[InputId(2, "highest")] = << >>

\* C16: calculateOverallSGPA displays no SGPA but an error when a subject
\* has an empty, non-numeric or out-of-range field or a highest override
\* above its defaultHighest.
SGPAOnlyWithoutInputError ==
    (/\ lastCall = Called("calculateOverallSGPA", 0)
     /\ \E id \in CurrentIds : ~AllInRange(id) \/ OverrideAboveDefault(id))
    => outputSection = SGPAError

(***************************************************************************)
(* Who writes the grade points                                             *)
(***************************************************************************)
\* The handlers that run calculateSubject.
Evaluators == {"calculateSubject", "calculateOverallSGPA"}

\* The handlers that only read the state: predictor, CGPA aggregator,
\* saveState, restoreMarksForCurrentSelection inside proceedToCalculator,
\* and the print functions with their timers.
Readers ==
    {"updatePrediction", "calculateCGPA", "saveState", "proceedToCalculator",
     "printResult", "printOverallResult", "print timer"}

\* C17: the recorded grade points are written by calculateSubject only:
\* calculateSubject(id) for a current subject writes the entry of id and
\* leaves every other entry, the selection and currentSubjects alone, and
\* for any other id changes nothing; updatePrediction, calculateCGPA,
\* saveState, the restore functions and the print functions leave every
\* entry alone; the one other change is the reset to empty by
\* changeSelection (loadState runs on the empty map of a fresh page).
GradePointsWrittenByEvaluator ==
    [][LET handler == lastCall'.handler
           id      == lastCall'.arg
           before  == state.gradePoints
           after   == state'.gradePoints
       IN  /\ (handler = "calculateSubject" /\ id \in CurrentIds)
                  => /\ DOMAIN after = DOMAIN before \cup {id}
                     /\ \A other \in DOMAIN before \ {id} :
                            after[other] = before[other]
                     /\ state'.selectedBatch = state.selectedBatch
                     /\ state'.selectedBranch = state.selectedBranch
                     /\ state'.selectedSemester = state.selectedSemester
                     /\ state'.currentSubjects = state.currentSubjects
           /\ (handler = "calculateSubject" /\ id \notin CurrentIds)
                  => /\ state' = state /\ inputs' = inputs
                     /\ resultDiv' = resultDiv /\ outputSection' = outputSection
           /\ handler \in Readers => after = before
           /\ handler = "DOMContentLoaded" => after = initialState.gradePoints
           /\ after # before
                  => \/ handler \in Evaluators
                     \/ handler \in {"changeSelection", "DOMContentLoaded"}
                            /\ after = initialState.gradePoints]_vars

\* calculateSubject(2) has recorded 8 and the 10 of subject 1 is still
\* there.
SecondGradeBesideFirst ==
    /\ lastCall = Called("calculateSubject", 2)
    /\ DOMAIN state.gradePoints = {1, 2}
    /\ state.gradePoints[1] = 10
    /\ state.gradePoints[2] = 8

(***************************************************************************)
(* Resuming with saved marks                                               *)
(***************************************************************************)
\* The item holds marks of the selection the calculator is open for.
ResumeOfSession ==
    /\ resume.present
    /\ resume.batch = state.selectedBatch
    /\ resume.branch = state.selectedBranch
    /\ resume.semester = state.selectedSemester

\* Every value the item holds for a current subject is in its input.
MarksOfItemShown(item) ==
    \A id \in CurrentIds \cap DOMAIN item.marks :
        \A k \in 1..Len(item.marks[id]) :
            inputs[InputId(id, item.marks[id][k].key)] =
                item.marks[id][k].value

\* C18: marks saved for a selection and not edited since are in the subject
\* fields after proceedToCalculator with that selection, whatever input and
\* change events, debounced saves and reloads happened in between.
SavedMarksRestored ==
    (/\ lastCall = Called("proceedToCalculator", 0)
     /\ state.selectedBatch # NoSelection
     /\ ResumeOfSession)
    => /\ CurrentIds \subseteq DOMAIN resume.marks
       /\ MarksOfItemShown(resume)

(***************************************************************************)
(* The debounced function                                                  *)
(***************************************************************************)
OneTimerPending == Cardinality(debounced.timers) <= 1

\* func has run with the arguments of the call made last before, and no
\* sooner than wait after it.
InvokedAfterWait ==
    \A i \in 1..Len(debounced.invoked) :
        LET run == debounced.invoked[i]
        IN  /\ run.calls >= 1
            /\ run.args = debounced.calls[run.calls].args
            /\ run.at >= debounced.calls[run.calls].at + debounced.wait

\* A burst is a run of calls with no run of func in between.  func has run
\* once for every burst that is over, and a burst is over when no timer is
\* pending.
OneRunPerBurst ==
    LET runs == debounced.invoked
    IN  /\ \A i \in 1..Len(runs) : \A j \in 1..Len(runs) :
               i < j => runs[i].calls < runs[j].calls
        /\ (debounced.timers = {} /\ debounced.calls # << >>)
               => /\ runs # << >>
                  /\ runs[Len(runs)].calls = Len(debounced.calls)
        /\ debounced.timers # {}
               => \/ runs = << >>
                  \/ runs[Len(runs)].calls < Len(debounced.calls)

\* C19: a debounced function has at most one timer pending; func runs only
\* once wait has passed since the last call; a burst of calls, each made
\* before the timer of the one before fires, leads to exactly one run of
\* func, with the arguments of the last call.
DebouncedOnce ==
    /\ [](OneTimerPending /\ InvokedAfterWait /\ OneRunPerBurst)
    /\ (debounced.timers # {}) ~> (debounced.timers = {})

\* Three calls in one burst, the last with other arguments than the first,
\* and func has run once.
BurstOfThreeRunOnce ==
    /\ Len(debounced.calls) = 3
    /\ debounced.calls[1].args # debounced.calls[3].args
    /\ Len(debounced.invoked) = 1
    /\ debounced.invoked[1].calls = 3
    /\ debounced.wait = 2

(***************************************************************************)
(* Predictor against evaluator                                             *)
(***************************************************************************)
\* The non-final fields of the trial hold valid marks and the override is
\* blank or within 0 < override <= defaultHighest.
PredictableTrial ==
    LET subject  == trial.subject
        override == parseFloat64(trial.typed.highest)
    IN  /\ \A j \in 1..Len(subject.fields) :
               subject.fields[j].name # "ese"
               => LET mark == parseFloat64(trial.typed[subject.fields[j].name])
                  IN  /\ ~mark.nan
                      /\ ~DoubleGreater(mark, subject.fields[j].max)
        /\ \/ trial.typed.highest = << >>
           \/ /\ ~override.nan /\ override.man # << >>
              /\ ~DoubleGreater(override, subject.defaultHighest)

\* What the prediction says about the target g fits the grade point the
\* evaluator has recorded for the score typed.
VerdictAgrees(g, verdict, need) ==
    /\ verdict = "need"
        => /\ trial.score = need => trial.gradePoint >= g
           /\ trial.score < need => trial.gradePoint < g
    /\ verdict = "secured" => trial.gradePoint >= g
    /\ verdict = "notPossible" => trial.gradePoint < g

\* C20: for valid non-final marks and a blank or valid override the
\* prediction agrees with calculateSubject for the targets 10 and 9: the
\* score it asks for reaches the target and no whole score below it does,
\* "already secured" means every valid score reaches it, "not possible"
\* none.
PredictorAgreesWithEvaluator ==
    (/\ trial.score # 0 - 1
     /\ trial.prediction.kind = "prediction"
     /\ PredictableTrial)
    => /\ VerdictAgrees(10, trial.prediction.for10, trial.prediction.needFor10)
       /\ VerdictAgrees(9, trial.prediction.for9, trial.prediction.needFor9)

(***************************************************************************)
(* The SGPA report against the marks it prints                             *)
(***************************************************************************)
\* printResult has just filled the report: the inputs of the cards hold the
\* values its rows show.
JustPrinted == lastCall = Called("printResult", 0)

\* The grade point calculateSubject yields for the values the inputs of the
\* card of this subject hold.
GradeForShownMarks(id) ==
    RecordedOrZero(calculateSubject(World, id).state.gradePoints, id)

\* The grade point of every row is the one calculateSubject yields for the
\* marks and the highest of that row.
RowsMatchMarks ==
    \A i \in 1..Len(printArea.sgpa.rows) :
        printArea.sgpa.rows[i].gp
            = GradeForShownMarks(printArea.sgpa.rows[i].id)

\* The totals of the footer are the totals calculateOverallSGPA displays
\* for the values the inputs hold, where it displays an SGPA.
FooterMatchesMarks ==
    LET shown == calculateOverallSGPA(World).outputSection
    IN  shown.kind = "sgpa"
        => /\ printArea.sgpa.footer.totalCredits = shown.totalCredits
           /\ printArea.sgpa.footer.totalCreditPoints
                  = shown.totalCreditPoints

\* C21: the printed SGPA report is consistent with the marks it prints:
\* the grade point of each row is the one calculateSubject yields for the
\* marks and highest of that row, and the SGPA of the footer is the one
\* calculateOverallSGPA would display for those marks.
ReportMatchesMarks ==
    JustPrinted => RowsMatchMarks /\ FooterMatchesMarks

(***************************************************************************)
(* The three screens                                                       *)
(***************************************************************************)
\* The screens whose style.display is not "none".
Displayed == {i \in 1..Len(screens) : display[screens[i]] # "none"}

\* C22: at most one of selectionScreen, calculatorScreen and
\* cgpaCalculatorScreen is displayed at any time, also when switchScreen is
\* called while the fade-out timer of an earlier call is pending, and once
\* no timer is pending the one displayed screen is the target of the most
\* recent switchScreen call.
OneScreenAtATime ==
    /\ Cardinality(Displayed) <= 1
    /\ (screenTimers = << >> /\ lastTarget # "")
        => \A i \in Displayed : screens[i] = lastTarget

=============================================================================
